---------------------------- MODULE Spec2Model ----------------------------
(***************************************************************************)
(* Document store, doc_type versioning and chunked FAISS index store of    *)
(* the test-case bot backend (src/backend/mongo_db.py), with the index     *)
(* loaders of information_retrieval.py and test_case_generation.py and the *)
(* table-feature association of document_processor.py.                     *)
(*                                                                         *)
(* Strings that the code inspects character by character (doc_type,        *)
(* title, index name) are sequences of one-character strings.  A byte of   *)
(* a serialized index is symbolic: <<upload_date, page_no, element>> of    *)
(* the document it encodes, so that two different indexes never serialize  *)
(* to the same bytes and every position of a blob is distinguishable.      *)
(***************************************************************************)
EXTENDS Integers, Sequences, FiniteSets, TLC

VARIABLES
    collection,      \* db["documents"]: set of page records
    vector_indices,  \* db["vector_indices"]: set of chunk records
    clock,           \* datetime.datetime.now(), one tick per upload
    response,        \* what the most recent handler returned to its caller
    writers,         \* update_vector_index calls in progress: position and locals
    reader,          \* a load_all_faiss_indexes call in progress
    all_text_elements,  \* extract_pdf_content: text elements of the first pass
    table,           \* the table whose feature is looked up: page and top
    feature,         \* the label find_best_feature_for_table returned
    pdf,             \* extract_pdf_content: the pages of the PDF being read
    pages_done,      \* extract_pdf_content: pages the first pass has read
    documents,       \* process_documents_parallel: the LangChain documents
    batches,         \* process_documents_parallel: the batches of documents
    futures,         \* the submitted process_batch_with_retry calls
    faiss_index,     \* process_documents_parallel: the merged index so far
    completed,       \* process_documents_parallel: batches merged so far
    build_pc,        \* process_documents_parallel: where the call stands
    retry,           \* one process_batch_with_retry call and its clock
    request,         \* an upload request: its files, title and doc_type
    progress,        \* upload_multiple_files: where each file stands
    results,         \* upload_multiple_files: results[file_path]
    http,            \* status code the endpoint answered, 0 if none
    multi_pc,        \* where the request stands
    feedback_collection,  \* db["test_case_feedback"]: records in insertion order
    fb_clock,        \* datetime.utcnow() of the feedback handlers
    fb_result,       \* what the most recent feedback handler returned or raised
    llm,             \* one _generate_with_retry call
    suite,           \* one _generate_test_suite call
    uploads          \* upload_file_to_mongodb calls in progress: position and locals

storeVars == <<collection, vector_indices, clock, response>>
concVars == <<writers, reader>>
featureVars == <<all_text_elements, table, feature>>
extractVars == <<pdf, pages_done>>
buildVars == <<documents, batches, futures, faiss_index, completed, build_pc>>
retryVars == <<retry>>
multiVars == <<request, progress, results, http, multi_pc>>
feedbackVars == <<feedback_collection, fb_clock, fb_result>>
llmVars == <<llm>>
suiteVars == <<suite>>
uploadVars == <<uploads>>
laterVars == <<feedbackVars, llmVars, suiteVars, uploadVars>>
vars == <<storeVars, concVars, featureVars, extractVars, buildVars, retryVars, multiVars, laterVars>>

\* what the handlers of the sequential store leave alone
StoreFrame == UNCHANGED <<concVars, featureVars, extractVars, buildVars, retryVars, multiVars, laterVars>>
\* what the steps of concurrent index writers and readers leave alone
ConcFrame == UNCHANGED <<collection, clock, response, featureVars, extractVars, buildVars, retryVars, multiVars, laterVars>>
\* what the table-feature lookup leaves alone
FeatureFrame == UNCHANGED <<storeVars, concVars, extractVars, buildVars, retryVars, multiVars, laterVars>>
\* what the extraction of a PDF leaves alone
ExtractFrame == UNCHANGED <<storeVars, concVars, buildVars, retryVars, multiVars, laterVars>>
\* what an index build leaves alone
BuildFrame == UNCHANGED <<storeVars, concVars, featureVars, extractVars, retryVars, multiVars, laterVars>>
\* what one process_batch_with_retry call leaves alone
RetryFrame == UNCHANGED <<storeVars, concVars, featureVars, extractVars, buildVars, multiVars, laterVars>>
\* what the steps of an upload request leave alone
MultiFrame == UNCHANGED <<response, concVars, featureVars, extractVars, buildVars, retryVars, laterVars>>
\* what the feedback handlers leave alone
FeedbackFrame == UNCHANGED <<storeVars, concVars, featureVars, extractVars, buildVars, retryVars, multiVars, llmVars, suiteVars, uploadVars>>
\* what one _generate_with_retry call leaves alone
LlmFrame == UNCHANGED <<storeVars, concVars, featureVars, extractVars, buildVars, retryVars, multiVars, feedbackVars, suiteVars, uploadVars>>
\* what one _generate_test_suite call leaves alone
SuiteFrame == UNCHANGED <<storeVars, concVars, featureVars, extractVars, buildVars, retryVars, multiVars, feedbackVars, llmVars, uploadVars>>
\* what the steps of interleaved uploads leave alone
UploadFrame == UNCHANGED <<response, concVars, featureVars, extractVars, buildVars, retryVars, multiVars, feedbackVars, llmVars, suiteVars>>

---------------------------------------------------------------------------
(* Bounds of the model *)

MaxUploads == 2      \* uploads that store something, per behaviour
MaxPages == 4        \* pages of the largest uploaded file
ChunkScale == 2      \* bytes per chunk in the model (15 MB in the code)
MaxElements == 3     \* text elements of a document in the feature lookup
MaxPosition == 3     \* vertical positions on a page

\* self.MAX_CHUNK_SIZE, scaled down to ChunkScale symbolic bytes
MAX_CHUNK_SIZE == ChunkScale

Titles == { <<"a", " ", "b">>, <<"a", "_", "b">> }
BaseTypes == { <<"t">>, <<"t", "1">> }

\* An uploaded file: its extension and what the parser extracts from it.
Files ==
    [ext : {".pdf"}, pages : 0..MaxPages]
        \cup { [ext |-> ".csv", pages |-> 1], [ext |-> ".txt", pages |-> 1] }

---------------------------------------------------------------------------
(* Python string helpers *)

DigitChars == <<"0", "1", "2", "3", "4", "5", "6", "7", "8", "9">>

IsDigit(c) == \E i \in 1..10 : DigitChars[i] = c

DigitVal(c) == (CHOOSE i \in 1..10 : DigitChars[i] = c) - 1

\* str(n) for n >= 0
RECURSIVE IntToStr(_)
IntToStr(n) ==
    IF n < 10 THEN << DigitChars[n + 1] >>
    ELSE IntToStr(n \div 10) \o << DigitChars[(n % 10) + 1] >>

\* int(s) for a non-empty string of digits (leading zeros allowed)
RECURSIVE ParseInt(_)
ParseInt(s) ==
    IF s = << >> THEN 0
    ELSE 10 * ParseInt(SubSeq(s, 1, Len(s) - 1)) + DigitVal(s[Len(s)])

\* re.search(r'(\d+)$', s).group(1): the longest all-digit suffix; << >> when
\* there is no match
RECURSIVE TrailingDigits(_)
TrailingDigits(s) ==
    IF s = << >> \/ ~IsDigit(s[Len(s)]) THEN << >>
    ELSE TrailingDigits(SubSeq(s, 1, Len(s) - 1)) \o << s[Len(s)] >>

\* {"$regex": f"^{base_doctype}\d*$"} applied to s
RegexMatches(base_doctype, s) ==
    /\ Len(s) >= Len(base_doctype)
    /\ SubSeq(s, 1, Len(base_doctype)) = base_doctype
    /\ \A i \in (Len(base_doctype) + 1)..Len(s) : IsDigit(s[i])

\* title.replace(' ', '_')
ReplaceSpaces(s) == [i \in 1..Len(s) |-> IF s[i] = " " THEN "_" ELSE s[i]]

SetMax(S) == CHOOSE m \in S : \A x \in S : x <= m
SetMin(S) == CHOOSE m \in S : \A x \in S : m <= x

---------------------------------------------------------------------------
(* MongoDBHandler._get_next_available_doctype *)

ExistingDoctypes(coll, title, base_doctype) ==
    { r.doc_type : r \in { x \in coll : /\ x.title = title
                                         /\ RegexMatches(base_doctype, x.doc_type) } }

SuffixNum(doctype, base_doctype) ==
    IF doctype = base_doctype THEN 1
    ELSE LET m == TrailingDigits(doctype)
         IN  IF m # << >> THEN ParseInt(m) ELSE 0

MaxNum(existing_doctypes, base_doctype) ==
    SetMax({0} \cup { SuffixNum(d, base_doctype) : d \in existing_doctypes })

\* Variant: the suffix is the current maximum instead of one above it.
GetNextAvailableDoctype_NoIncrement(coll, title, base_doctype) ==
    LET existing_doctypes == ExistingDoctypes(coll, title, base_doctype)
    IN  IF base_doctype \notin existing_doctypes THEN base_doctype
        ELSE base_doctype \o IntToStr(MaxNum(existing_doctypes, base_doctype))

\* Variant: no versioning, the requested doc_type is used as it is.
GetNextAvailableDoctype_AlwaysBase(coll, title, base_doctype) == base_doctype

GetNextAvailableDoctype(coll, title, base_doctype) ==
    LET existing_doctypes == ExistingDoctypes(coll, title, base_doctype)
    IN  IF base_doctype \notin existing_doctypes THEN base_doctype
        ELSE base_doctype \o IntToStr(MaxNum(existing_doctypes, base_doctype) + 1)

---------------------------------------------------------------------------
(* DocumentParser: what the upload pipeline extracts and indexes *)

SupportedExts_AlsoTxt == {".pdf", ".docx", ".doc", ".xlsx", ".xls", ".csv", ".txt"}

\* the extensions upload_file_to_mongodb dispatches on
SupportedExts == {".pdf", ".docx", ".doc", ".xlsx", ".xls", ".csv"}

\* extract_pdf_content / process_excel: the page list of a file.  A PDF page
\* carries one text element, a spreadsheet is one page holding one table.
ExtractContent(file) ==
    IF file.ext \in {".xlsx", ".xls", ".csv"}
    THEN << [page_no |-> 1, content |-> <<"table">>] >>
    ELSE [i \in 1..file.pages |-> [page_no |-> i, content |-> <<"text">>]]

\* The records of a find(), in insertion order (upload_date, then page_no).
RECURSIVE InInsertionOrder(_)
InInsertionOrder(recs) ==
    IF recs = {} THEN << >>
    ELSE LET first == CHOOSE r \in recs : \A x \in recs :
                          \/ r.upload_date < x.upload_date
                          \/ /\ r.upload_date = x.upload_date
                             /\ r.page_no <= x.page_no
         IN  << first >> \o InInsertionOrder(recs \ {first})

\* create_langchain_documents: one Document per content element
RECURSIVE CreateLangchainDocuments(_)
CreateLangchainDocuments(docs) ==
    IF docs = << >> THEN << >>
    ELSE LET doc == Head(docs)
         IN  [e \in 1..Len(doc.content) |->
                 [doc_id |-> <<doc.upload_date, doc.page_no>>,
                  title |-> doc.title, doc_type |-> doc.doc_type,
                  page_no |-> doc.page_no, element_type |-> doc.content[e],
                  element |-> e]]
             \o CreateLangchainDocuments(Tail(docs))

\* process_documents_parallel, seen from update_vector_index: the index over
\* the given documents (None, here << >>, when there are none)
ProcessDocumentsParallel(lc_docs) == lc_docs

\* index.serialize_to_bytes(): one symbolic byte per indexed document
SerializeToBytes(index) ==
    [i \in 1..Len(index) |-> <<index[i].doc_id[1], index[i].doc_id[2], index[i].element>>]

---------------------------------------------------------------------------
(* MongoDBHandler.update_vector_index *)

\* faiss_index_{doc_type}_{title.replace(' ', '_')}
IndexName(doc_type, title) ==
    <<"faiss_index_">> \o doc_type \o <<"_">> \o ReplaceSpaces(title)

\* Variant: range() stops before a trailing partial chunk.
SplitChunks_DropsTail(index_bytes) ==
    [k \in 1..(Len(index_bytes) \div MAX_CHUNK_SIZE) |->
        SubSeq(index_bytes, (k - 1) * MAX_CHUNK_SIZE + 1, k * MAX_CHUNK_SIZE)]

\* [index_bytes[i:i+MAX_CHUNK_SIZE] for i in range(0, len(index_bytes), MAX_CHUNK_SIZE)]
SplitChunks(index_bytes) ==
    LET n == (Len(index_bytes) + MAX_CHUNK_SIZE - 1) \div MAX_CHUNK_SIZE
    IN  [k \in 1..n |->
            SubSeq(index_bytes, (k - 1) * MAX_CHUNK_SIZE + 1,
                   IF k * MAX_CHUNK_SIZE < Len(index_bytes)
                   THEN k * MAX_CHUNK_SIZE ELSE Len(index_bytes))]

\* the documents inserted by the loop over enumerate(chunks)
ChunkRecords(chunks, index_name, doc_type, title, now) ==
    { [name |-> index_name, chunk_number |-> k - 1, total_chunks |-> Len(chunks),
       index_chunk |-> chunks[k], doc_type |-> doc_type, title |-> title,
       last_updated |-> now] : k \in 1..Len(chunks) }

\* Variant: the old chunk set is not deleted.
DeleteByName_Nothing(vi, index_name) == vi

\* vector_indices.delete_many({"name": index_name})
DeleteByName(vi, index_name) == { c \in vi : c.name # index_name }

\* The bytes update_vector_index serializes for (doc_type, title); << >> when
\* it returns None before touching the chunk store.
IndexBytesFor(coll, doc_type, title) ==
    LET docs == InInsertionOrder({ r \in coll : r.title = title /\ r.doc_type = doc_type })
        index == ProcessDocumentsParallel(CreateLangchainDocuments(docs))
    IN  IF docs = << >> \/ index = << >> THEN << >> ELSE SerializeToBytes(index)

\* The chunk store after update_vector_index(doc_type, title)
UpdateVectorIndex(coll, vi, doc_type, title, now) ==
    LET index_bytes == IndexBytesFor(coll, doc_type, title)
        index_name == IndexName(doc_type, title)
    IN  IF index_bytes = << >> THEN vi
        ELSE DeleteByName(vi, index_name)
                 \cup ChunkRecords(SplitChunks(index_bytes), index_name, doc_type, title, now)

---------------------------------------------------------------------------
(* MongoDBHandler.upload_file_to_mongodb *)

RecordsOf(coll, title) == { r \in coll : r.title = title }

\* collection.delete_many({"title": title, "doc_type": final_doctype})
DeleteByTitleAndType(coll, title, doc_type) ==
    { r \in coll : ~(r.title = title /\ r.doc_type = doc_type) }

\* mongo_docs: one record per extracted page
MongoDocs(file_data, title, final_doctype, file, now) ==
    { [title |-> title, name |-> file, page_no |-> file_data[i].page_no,
       content |-> file_data[i].content, doc_type |-> final_doctype,
       upload_date |-> now] : i \in 1..Len(file_data) }

UploadFailed(file) == [op |-> "upload", ok |-> FALSE, file |-> file]

\* what can go wrong inside update_vector_index: nothing, the build yields no
\* index (or an exception precedes delete_many), or an insert_one raises after
\* `done` chunks were inserted; in the last two cases the call returns None
NoFault == [at |-> "none", done |-> 0]
Faults ==
    {NoFault, [at |-> "build", done |-> 0]}
        \cup { [at |-> "insert", done |-> j] : j \in 0..(MaxPages - 1) }

\* The chunk store after update_vector_index(doc_type, title) under a fault
UpdateVectorIndexUnder(coll, vi, doc_type, title, now, fault) ==
    LET index_bytes == IndexBytesFor(coll, doc_type, title)
        index_name == IndexName(doc_type, title)
        records == ChunkRecords(SplitChunks(index_bytes), index_name, doc_type, title, now)
    IN  IF fault.at = "none" THEN UpdateVectorIndex(coll, vi, doc_type, title, now)
        ELSE IF fault.at = "build" \/ index_bytes = << >> THEN vi
        ELSE DeleteByName(vi, index_name)
                 \cup { c \in records : c.chunk_number < fault.done }

UploadFileToMongodbUnder(file, doc_type, title, fault) ==
    LET final_doctype == GetNextAvailableDoctype(collection, title, doc_type)
        file_data == ExtractContent(file)
        kept == DeleteByTitleAndType(collection, title, final_doctype)
        mongo_docs == MongoDocs(file_data, title, final_doctype, file, clock)
    IN  IF file.ext \notin SupportedExts \/ file_data = << >>
        THEN /\ response' = UploadFailed(file)
             /\ UNCHANGED <<collection, vector_indices, clock>>
             /\ StoreFrame
        ELSE /\ clock < MaxUploads
             /\ StoreFrame
             /\ collection' = kept \cup mongo_docs
             /\ fault.at = "insert" =>
                    fault.done < Len(SplitChunks(IndexBytesFor(kept \cup mongo_docs,
                                                                final_doctype, title)))
             /\ vector_indices' =
                    UpdateVectorIndexUnder(kept \cup mongo_docs, vector_indices,
                                           final_doctype, title, clock, fault)
             /\ clock' = clock + 1
             /\ response' =
                    [op |-> "upload", ok |-> TRUE, title |-> title,
                     doc_type |-> doc_type, file |-> file,
                     final_doctype |-> final_doctype,
                     count_before |-> Cardinality(RecordsOf(collection, title)),
                     deleted |-> Cardinality(collection \ kept),
                     inserted |-> Cardinality(mongo_docs),
                     index |-> IF \/ fault.at # "none"
                                  \/ IndexBytesFor(kept \cup mongo_docs,
                                                   final_doctype, title) = << >>
                               THEN "None" ELSE "built",
                     reupload |-> \E r \in collection :
                                      /\ r.title = title
                                      /\ r.doc_type = doc_type
                                      /\ r.name = file]

\* upload_file_to_mongodb when nothing goes wrong inside update_vector_index
UploadFileToMongodb(file, doc_type, title) ==
    UploadFileToMongodbUnder(file, doc_type, title, NoFault)

Upload == \E file \in Files, doc_type \in BaseTypes, title \in Titles :
              UploadFileToMongodb(file, doc_type, title)

---------------------------------------------------------------------------
(* The index loaders *)

\* find(...).sort("chunk_number", 1): every order of the chunk set that is
\* ascending in chunk_number (the order among equal keys is not specified)
RECURSIVE SortedByChunkNumber(_)
SortedByChunkNumber(chunks) ==
    IF chunks = {} THEN { << >> }
    ELSE LET least == SetMin({ c.chunk_number : c \in chunks })
         IN  UNION { { << c >> \o rest : rest \in SortedByChunkNumber(chunks \ {c}) } :
                     c \in { x \in chunks : x.chunk_number = least } }

\* b"".join(chunk["index_chunk"] for chunk in chunks)
RECURSIVE JoinChunks(_)
JoinChunks(chunks) ==
    IF chunks = << >> THEN << >>
    ELSE Head(chunks).index_chunk \o JoinChunks(Tail(chunks))

\* the byte strings a find-sort-join of the chunk set can produce
FaissBytes(chunks) == { JoinChunks(s) : s \in SortedByChunkNumber(chunks) }

\* vector_indices.distinct("name")
IndexNames(vi) == { c.name : c \in vi }

ChunksNamed(vi, index_name) == { c \in vi : c.name = index_name }

\* vector_indices.find({'title': product_title})
ChunksTitled(vi, product_title) == { c \in vi : c.title = product_title }

\* text_docs: the text elements of the given page records
TextDocs(recs) ==
    UNION { { <<r.upload_date, r.page_no, e>> :
                e \in { i \in 1..Len(r.content) : r.content[i] = "text" } } :
            r \in recs }

\* InformationRetrievalProcessor.load_hybrid_retriever, with the call of
\* load_all_faiss_indexes it starts with.  handed: the byte strings given to
\* FAISS.deserialize_from_bytes, one per index name; text_docs: the documents
\* given to BM25Retriever.from_documents.  The BM25 retriever built
\* afterwards is taken to be constructible.
LoadHybridRetriever ==
    LET index_names == IndexNames(vector_indices)
    IN  /\ IF index_names = {}
           THEN response' = [op |-> "load_hybrid_retriever", status |-> "ValueError",
                             handed |-> {}, retriever |-> FALSE]
           ELSE \E pick \in [index_names -> UNION { FaissBytes(ChunksNamed(vector_indices, n)) :
                                                    n \in index_names }] :
                    /\ \A n \in index_names :
                           pick[n] \in FaissBytes(ChunksNamed(vector_indices, n))
                    /\ response' = [op |-> "load_hybrid_retriever", status |-> "ok",
                                    handed |-> { pick[n] : n \in index_names },
                                    text_docs |-> TextDocs(collection),
                                    retriever |-> TRUE]
        /\ UNCHANGED <<collection, vector_indices, clock>>
        /\ StoreFrame

\* Variant: _load_faiss_index without its "if not chunks" check.
GetRelevantDocs_NoCheck(product_title) ==
    LET text_docs == TextDocs(RecordsOf(collection, product_title))
        chunks == ChunksTitled(vector_indices, product_title)
    IN  /\ IF text_docs = {}
           THEN response' = [op |-> "get_relevant_docs", title |-> product_title,
                             status |-> "no_text_docs", handed |-> {},
                             retriever |-> FALSE]
           ELSE \E faiss_bytes \in FaissBytes(chunks) :
                    response' = [op |-> "get_relevant_docs", title |-> product_title,
                                 status |-> "ok", handed |-> {faiss_bytes},
                                 text_docs |-> text_docs,
                                 retriever |-> TRUE]
        /\ UNCHANGED <<collection, vector_indices, clock>>
        /\ StoreFrame

\* TestCaseGenerator._get_relevant_docs(query, product_title), with the call
\* of _load_faiss_index(product_title) it makes
GetRelevantDocs(product_title) ==
    LET text_docs == TextDocs(RecordsOf(collection, product_title))
        chunks == ChunksTitled(vector_indices, product_title)
    IN  /\ IF text_docs = {}
           THEN response' = [op |-> "get_relevant_docs", title |-> product_title,
                             status |-> "no_text_docs", handed |-> {},
                             retriever |-> FALSE]
           ELSE IF chunks = {}
           THEN response' = [op |-> "get_relevant_docs", title |-> product_title,
                             status |-> "ValueError", handed |-> {},
                             retriever |-> FALSE]
           ELSE \E faiss_bytes \in FaissBytes(chunks) :
                    response' = [op |-> "get_relevant_docs", title |-> product_title,
                                 status |-> "ok", handed |-> {faiss_bytes},
                                 text_docs |-> text_docs,
                                 retriever |-> TRUE]
        /\ UNCHANGED <<collection, vector_indices, clock>>
        /\ StoreFrame

Retrieve == \E product_title \in Titles : GetRelevantDocs(product_title)

---------------------------------------------------------------------------
NoWriters == << >>
NoReader == [pc |-> "idle", todo |-> {}, handed |-> {}, status |-> "none"]
NoFeatureLookup ==
    /\ all_text_elements = << >>
    /\ table = [page |-> 0, top |-> 0]
    /\ feature = "pending"
NoExtraction ==
    /\ pdf = << >>
    /\ pages_done = 0
None == [none |-> TRUE]
NoBuild ==
    /\ documents = << >>
    /\ batches = << >>
    /\ futures = << >>
    /\ faiss_index = None
    /\ completed = 0
    /\ build_pc = "idle"
NoRetry ==
    retry = [pc |-> "idle", batch |-> << >>, now |-> 0, last_error_time |-> 0,
             failures |-> 0, result |-> None]
NoRequest ==
    /\ request = [via |-> "none", files |-> << >>, title |-> << >>, doc_type |-> << >>]
    /\ progress = << >>
    /\ results = << >>
    /\ http = 0
    /\ multi_pc = "idle"
NoFeedback ==
    /\ feedback_collection = << >>
    /\ fb_clock = 0
    /\ fb_result = [op |-> "none"]
NoLlmCall == llm = [pc |-> "idle"]
NoSuite == suite = [pc |-> "idle"]
NoUploads == uploads = << >>
NoLaterWork == NoFeedback /\ NoLlmCall /\ NoSuite /\ NoUploads

Init ==
    /\ collection = {}
    /\ vector_indices = {}
    /\ clock = 0
    /\ response = [op |-> "none"]
    /\ writers = NoWriters
    /\ reader = NoReader
    /\ NoFeatureLookup
    /\ NoExtraction
    /\ NoBuild
    /\ NoRetry
    /\ NoRequest
    /\ NoLaterWork

Next == Upload \/ LoadHybridRetriever \/ Retrieve

Spec == Init /\ [][Next]_vars

---------------------------------------------------------------------------
(* Properties of the sequential store (Spec) *)

StoredDoctypes(title) == { r.doc_type : r \in RecordsOf(collection, title) }

\* the (doc_type, title) pairs that update_vector_index was called for
IndexedPairs == { <<r.doc_type, r.title>> : r \in collection }

\* when update_vector_index last ran for the pair
IndexedAt(pair) ==
    SetMax({ r.upload_date : r \in { x \in collection :
                                       x.doc_type = pair[1] /\ x.title = pair[2] } })

\* the pair of the most recent update_vector_index call for an index name
LatestPairNamed(index_name) ==
    CHOOSE p \in IndexedPairs :
        /\ IndexName(p[1], p[2]) = index_name
        /\ \A q \in IndexedPairs :
               IndexName(q[1], q[2]) = index_name => IndexedAt(q) <= IndexedAt(p)

\* the serialized index that call persisted
LatestBytesNamed(index_name) ==
    LET p == LatestPairNamed(index_name)
    IN  IndexBytesFor(collection, p[1], p[2])

UploadDone == response.op = "upload" /\ response.ok

\* C1: _get_next_available_doctype returns base when no stored doc_type of
\* the title matches base, base+"1" when only base is stored, and base+"2"
\* when base and base+"1" are stored.
C1_NextDoctypeAsDocumented ==
    \A title \in Titles, base \in BaseTypes :
        LET existing == ExistingDoctypes(collection, title, base)
            next == GetNextAvailableDoctype(collection, title, base)
        IN  /\ existing = {} => next = base
            /\ existing = {base} => next = base \o <<"1">>
            /\ existing = {base, base \o <<"1">>} => next = base \o <<"2">>

C4_ChunksReassemble ==
    /\ \A n \in IndexNames(vector_indices) :
           FaissBytes(ChunksNamed(vector_indices, n)) = { LatestBytesNamed(n) }
    /\ \A p \in IndexedPairs : IndexName(p[1], p[2]) \in IndexNames(vector_indices)

C4_MultiChunkStored ==
    \E n1, n2 \in IndexNames(vector_indices) :
        /\ Len(LatestBytesNamed(n1)) > MAX_CHUNK_SIZE
        /\ Len(LatestBytesNamed(n1)) % MAX_CHUNK_SIZE # 0
        /\ Len(LatestBytesNamed(n2)) % MAX_CHUNK_SIZE = 0
        /\ FaissBytes(ChunksNamed(vector_indices, n1)) = { LatestBytesNamed(n1) }
        /\ FaissBytes(ChunksNamed(vector_indices, n2)) = { LatestBytesNamed(n2) }

\* C5: under every index name the stored chunks are exactly those of the
\* most recent update_vector_index call for the name: chunk_number 0..N-1
\* once each, total_chunks = N, payloads of at most MAX_CHUNK_SIZE bytes,
\* and nothing of an earlier index.
C5_ChunkSetOfLatestCall ==
    \A n \in IndexNames(vector_indices) :
        LET chunks == ChunksNamed(vector_indices, n)
            N == Cardinality(chunks)
            p == LatestPairNamed(n)
        IN  /\ { c.chunk_number : c \in chunks } = 0..(N - 1)
            /\ \A c \in chunks :
                   /\ c.total_chunks = N
                   /\ Len(c.index_chunk) >= 1
                   /\ Len(c.index_chunk) <= MAX_CHUNK_SIZE
                   /\ c.last_updated = IndexedAt(p)
                   /\ c.doc_type = p[1] /\ c.title = p[2]
                   /\ \A i \in 1..Len(c.index_chunk) :
                          c.index_chunk[i][1] = IndexedAt(p)

C5_IndexReplaced ==
    \E p, q \in IndexedPairs :
        /\ p # q
        /\ IndexName(p[1], p[2]) = IndexName(q[1], q[2])
        /\ IndexName(p[1], p[2]) \in IndexNames(vector_indices)

\* C6: every byte string a loader hands to deserialization is the
\* serialized form of exactly one persisted index.
C6_HandedBytesAreOneIndex ==
    (response.op \in {"load_hybrid_retriever", "get_relevant_docs"}
        /\ response.status = "ok") =>
        \A b \in response.handed :
            \E p \in IndexedPairs : b = IndexBytesFor(collection, p[1], p[2])

\* C9: a load that finds no chunk for its key fails with an error; no
\* loader returns an empty index and no retriever is built in that case.
C9_NoChunksIsAnError ==
    /\ response.op = "load_hybrid_retriever" =>
           /\ vector_indices = {} =>
                  response.status = "ValueError" /\ ~response.retriever
           /\ response.status = "ok" =>
                  response.handed # {} /\ << >> \notin response.handed
    /\ (response.op = "get_relevant_docs" /\ response.status # "no_text_docs") =>
           /\ ChunksTitled(vector_indices, response.title) = {} =>
                  response.status = "ValueError" /\ ~response.retriever
           /\ response.status = "ok" =>
                  response.handed # {} /\ << >> \notin response.handed

C9_LoadFailedForTitle ==
    /\ response.op = "get_relevant_docs"
    /\ response.status = "ValueError"
    /\ RecordsOf(collection, response.title) # {}

---------------------------------------------------------------------------
(* Concurrent index writers and a reader (SpecConc)                        *)
(*                                                                         *)
(* One index is stored; two uploads whose (doc_type, title) derive the     *)
(* same index name have inserted their page records and are about to run   *)
(* update_vector_index, while load_all_faiss_indexes runs.  Each database  *)
(* call (find, delete_many, insert_one, distinct) is one step.             *)

\* the (doc_type, title) of the stored index and of the two calls
ConcPairs ==
    << << <<"t">>, <<"a", " ", "b">> >>,
       << <<"t">>, <<"a", "_", "b">> >>,
       << <<"t", "_", "a">>, <<"b">> >> >>

ConcDocs(k, pages) ==
    MongoDocs(ExtractContent([ext |-> ".pdf", pages |-> pages]),
              ConcPairs[k][2], ConcPairs[k][1], [ext |-> ".pdf", pages |-> pages], k - 1)

ConcInit ==
    /\ \E n0, n1, n2 \in 1..MaxPages :
           /\ collection = ConcDocs(1, n0) \cup ConcDocs(2, n1) \cup ConcDocs(3, n2)
           /\ vector_indices =
                  UpdateVectorIndex(ConcDocs(1, n0), {}, ConcPairs[1][1], ConcPairs[1][2], 0)
    /\ clock = 3
    /\ response = [op |-> "none"]
    /\ writers = [w \in 1..2 |->
                     [pc |-> "start", doc_type |-> ConcPairs[w + 1][1],
                      title |-> ConcPairs[w + 1][2], chunks |-> << >>, i |-> 0]]
    /\ reader = NoReader
    /\ NoFeatureLookup
    /\ NoExtraction
    /\ NoBuild
    /\ NoRetry
    /\ NoRequest
    /\ NoLaterWork

\* update_vector_index up to the list of chunks: find, build, serialize, split
WSerialize(w) ==
    /\ writers[w].pc = "start"
    /\ writers' = [writers EXCEPT
           ![w].chunks = SplitChunks(IndexBytesFor(collection, writers[w].doc_type,
                                                   writers[w].title)),
           ![w].pc = "delete"]
    /\ UNCHANGED <<vector_indices, reader>>
    /\ ConcFrame

\* self.vector_indices.delete_many({"name": index_name})
WDelete(w) ==
    /\ writers[w].pc = "delete"
    /\ vector_indices' =
           DeleteByName(vector_indices, IndexName(writers[w].doc_type, writers[w].title))
    /\ writers' = [writers EXCEPT
           ![w].pc = IF Len(writers[w].chunks) = 0 THEN "done" ELSE "insert",
           ![w].i = 0]
    /\ UNCHANGED reader
    /\ ConcFrame

\* one self.vector_indices.insert_one(...) of the loop over enumerate(chunks)
WInsert(w) ==
    /\ writers[w].pc = "insert"
    /\ LET me == writers[w]
           rec == [name |-> IndexName(me.doc_type, me.title), chunk_number |-> me.i,
                   total_chunks |-> Len(me.chunks), index_chunk |-> me.chunks[me.i + 1],
                   doc_type |-> me.doc_type, title |-> me.title, last_updated |-> w]
       IN  /\ vector_indices' = vector_indices \cup {rec}
           /\ writers' = [writers EXCEPT
                  ![w].i = me.i + 1,
                  ![w].pc = IF me.i + 1 = Len(me.chunks) THEN "done" ELSE "insert"]
    /\ UNCHANGED reader
    /\ ConcFrame

\* load_all_faiss_indexes: index_names = self.vector_indices.distinct("name")
RDistinct ==
    /\ reader.pc = "idle"
    /\ LET index_names == IndexNames(vector_indices)
       IN  reader' = IF index_names = {}
                     THEN [pc |-> "done", todo |-> {}, handed |-> {}, status |-> "ValueError"]
                     ELSE [pc |-> "find", todo |-> index_names, handed |-> {}, status |-> "none"]
    /\ UNCHANGED <<vector_indices, writers>>
    /\ ConcFrame

\* load_all_faiss_indexes: one turn of the loop, find-sort-join of one name
RFind ==
    /\ reader.pc = "find"
    /\ \E index_name \in reader.todo :
       \E faiss_bytes \in FaissBytes(ChunksNamed(vector_indices, index_name)) :
           reader' = [pc |-> IF reader.todo = {index_name} THEN "done" ELSE "find",
                      todo |-> reader.todo \ {index_name},
                      handed |-> reader.handed \cup {faiss_bytes},
                      status |-> IF reader.todo = {index_name} THEN "ok" ELSE "none"]
    /\ UNCHANGED <<vector_indices, writers>>
    /\ ConcFrame

WriterStep == \E w \in 1..2 : WSerialize(w) \/ WDelete(w) \/ WInsert(w)

ConcNext == WriterStep \/ RDistinct \/ RFind

SpecConc == ConcInit /\ [][ConcNext]_vars

\* the chunk set a call writes when it runs alone
ChunkSetOf(w) ==
    ChunkRecords(SplitChunks(IndexBytesFor(collection, ConcPairs[w + 1][1], ConcPairs[w + 1][2])),
                 IndexName(ConcPairs[w + 1][1], ConcPairs[w + 1][2]),
                 ConcPairs[w + 1][1], ConcPairs[w + 1][2], w)

\* the serialized indexes: the stored one and those of the two calls
WholeIndexes == { IndexBytesFor(collection, ConcPairs[k][1], ConcPairs[k][2]) : k \in 1..3 }

WritersDone == \A w \in 1..2 : writers[w].pc = "done"

\* C7: a load that runs while an index is being replaced is handed either
\* the complete previous or the complete new serialized index, never an
\* empty, partial or mixed one.
C7_ReaderSeesWholeIndex ==
    reader.pc = "done" =>
        /\ reader.status = "ok"
        /\ reader.handed \subseteq WholeIndexes

\* C8: after two interleaved update_vector_index calls for one name, the
\* old index is gone and the stored chunks come from the two calls, the
\* chunk set of at least one of them being complete; it can be the chunk
\* set of neither call alone.
C8_InterleavedWritersResult ==
    WritersDone =>
        /\ \A c \in vector_indices : c.last_updated \in 1..2
        /\ vector_indices \subseteq ChunkSetOf(1) \cup ChunkSetOf(2)
        /\ \E w \in 1..2 : ChunkSetOf(w) \subseteq vector_indices

C8_CorruptChunkSet ==
    /\ WritersDone
    /\ vector_indices # ChunkSetOf(1)
    /\ vector_indices # ChunkSetOf(2)
    /\ \E c, d \in vector_indices :
           /\ c # d
           /\ c.name = d.name
           /\ c.chunk_number = d.chunk_number
    /\ \E c, d \in vector_indices : c.name = d.name /\ c.total_chunks # d.total_chunks

---------------------------------------------------------------------------
(* DocumentParser.find_best_feature_for_table (SpecFeature) *)

Pages == {1, 2, 3}
TablePages == {2}
Positions == 1..MaxPosition

\* the text of the i-th extracted element
ElementTexts == <<"e1", "e2", "e3", "e4", "e5", "e6">>

\* lambda x: (x['page'], x['position']) compared as Python compares tuples
KeyLess(a, b) == a.page < b.page \/ (a.page = b.page /\ a.position < b.position)

\* list.sort(key=lambda x: (x['page'], x['position'])): stable
RECURSIVE InsertSorted(_, _)
InsertSorted(sorted, e) ==
    IF sorted = << >> THEN << e >>
    ELSE IF KeyLess(e, sorted[Len(sorted)])
         THEN InsertSorted(SubSeq(sorted, 1, Len(sorted) - 1), e) \o << sorted[Len(sorted)] >>
         ELSE sorted \o << e >>

RECURSIVE SortByPagePosition(_)
SortByPagePosition(elems) ==
    IF elems = << >> THEN << >>
    ELSE InsertSorted(SortByPagePosition(SubSeq(elems, 1, Len(elems) - 1)), elems[Len(elems)])

\* max(elems, key=lambda x: x['position']): the first element of greatest position
RECURSIVE MaxByPosition(_)
MaxByPosition(elems) ==
    IF Len(elems) = 1 THEN elems[1]
    ELSE LET rest == MaxByPosition(SubSeq(elems, 1, Len(elems) - 1))
         IN  IF elems[Len(elems)].position > rest.position THEN elems[Len(elems)] ELSE rest

OnPage(elems, p) == SelectSeq(elems, LAMBDA e : e.page = p)
Above(elems, top) == SelectSeq(elems, LAMBDA e : e.position < top)
Headings(elems) == SelectSeq(elems, LAMBDA e : e.is_heading)

\* Variant: without the same-page fallbacks (strategies 2 and 3).
FindBestFeatureForTable_HeadingOrOtherPages(elems, table_page, table_top) ==
    LET same_page_headings == Above(Headings(OnPage(elems, table_page)), table_top)
        previous_pages_elements == SelectSeq(elems, LAMBDA e : e.page < table_page)
        subsequent_pages_elements == SelectSeq(elems, LAMBDA e : e.page > table_page)
    IN  IF same_page_headings # << >> THEN MaxByPosition(same_page_headings).text
        ELSE IF previous_pages_elements # << >>
        THEN SortByPagePosition(previous_pages_elements)[Len(previous_pages_elements)].text
        ELSE IF subsequent_pages_elements # << >>
        THEN SortByPagePosition(subsequent_pages_elements)[1].text
        ELSE "N/A"

FindBestFeatureForTable(elems, table_page, table_top) ==
    LET same_page_elements == OnPage(elems, table_page)
        same_page_headings == Above(Headings(same_page_elements), table_top)
        texts_before_table == Above(same_page_elements, table_top)
        previous_pages_elements == SelectSeq(elems, LAMBDA e : e.page < table_page)
        subsequent_pages_elements == SelectSeq(elems, LAMBDA e : e.page > table_page)
    IN  IF same_page_headings # << >> THEN MaxByPosition(same_page_headings).text
        ELSE IF texts_before_table # << >> THEN MaxByPosition(texts_before_table).text
        ELSE IF same_page_elements # << >> THEN same_page_elements[1].text
        ELSE IF previous_pages_elements # << >>
        THEN SortByPagePosition(previous_pages_elements)[Len(previous_pages_elements)].text
        ELSE IF subsequent_pages_elements # << >>
        THEN SortByPagePosition(subsequent_pages_elements)[1].text
        ELSE "N/A"

FeatureInit ==
    /\ collection = {}
    /\ vector_indices = {}
    /\ clock = 0
    /\ response = [op |-> "none"]
    /\ writers = NoWriters
    /\ reader = NoReader
    /\ all_text_elements = << >>
    /\ table \in [page : TablePages, top : Positions]
    /\ feature = "pending"
    /\ NoExtraction
    /\ NoBuild
    /\ NoRetry
    /\ NoRequest
    /\ NoLaterWork

\* extract_pdf_content, first pass: all_text_elements.append(...); pages are
\* visited in ascending order
AppendTextElement ==
    /\ feature = "pending"
    /\ Len(all_text_elements) < MaxElements
    /\ \E page \in Pages, position \in Positions, is_heading \in BOOLEAN :
           /\ all_text_elements # << >> =>
                  all_text_elements[Len(all_text_elements)].page <= page
           /\ all_text_elements' = Append(all_text_elements,
                  [text |-> ElementTexts[Len(all_text_elements) + 1], page |-> page,
                   position |-> position, is_heading |-> is_heading])
    /\ UNCHANGED <<table, feature>>
    /\ FeatureFrame

\* extract_pdf_content, second pass: feature_text = find_best_feature_for_table(...)
FindFeature ==
    /\ feature = "pending"
    /\ feature' = FindBestFeatureForTable(all_text_elements, table.page, table.top)
    /\ UNCHANGED <<all_text_elements, table>>
    /\ FeatureFrame

FeatureNext == AppendTextElement \/ FindFeature

SpecFeature == FeatureInit /\ [][FeatureNext]_vars

ElemIdx == 1..Len(all_text_elements)
IdxOnPage == { i \in ElemIdx : all_text_elements[i].page = table.page }
IdxAbove == { i \in IdxOnPage : all_text_elements[i].position < table.top }
IdxHeadingAbove == { i \in IdxAbove : all_text_elements[i].is_heading }
IdxBefore == { i \in ElemIdx : all_text_elements[i].page < table.page }
IdxAfter == { i \in ElemIdx : all_text_elements[i].page > table.page }

\* the label is the text of an element of S that is greatest by position
IsLowestOf(S) ==
    \E i \in S : /\ feature = all_text_elements[i].text
                 /\ \A j \in S : all_text_elements[j].position
                                     <= all_text_elements[i].position

\* the label is the text of the last element of S by (page, position)
IsLastOf(S) ==
    \E i \in S : /\ feature = all_text_elements[i].text
                 /\ \A j \in S : ~KeyLess(all_text_elements[i], all_text_elements[j])

\* the label is the text of the first element of S by (page, position)
IsFirstOf(S) ==
    \E i \in S : /\ feature = all_text_elements[i].text
                 /\ \A j \in S : ~KeyLess(all_text_elements[j], all_text_elements[i])

\* C10: the label is chosen by the first rule that applies: nearest heading
\* above the table on its page, nearest text above it on its page, first
\* text of its page, last text of the earlier pages, first text of the
\* later pages, "N/A"; a text of the table's page always wins over the
\* other pages.
C10_FeatureByFirstApplicableRule ==
    feature # "pending" =>
        /\ IF IdxHeadingAbove # {} THEN IsLowestOf(IdxHeadingAbove)
           ELSE IF IdxAbove # {} THEN IsLowestOf(IdxAbove)
           ELSE IF IdxOnPage # {}
                THEN feature = all_text_elements[SetMin(IdxOnPage)].text
           ELSE IF IdxBefore # {} THEN IsLastOf(IdxBefore)
           ELSE IF IdxAfter # {} THEN IsFirstOf(IdxAfter)
           ELSE feature = "N/A"
        /\ IdxOnPage # {} =>
               \E i \in IdxOnPage : feature = all_text_elements[i].text

\* a same-page text wins over a heading of an earlier page
C10_PageLocalTextChosen ==
    /\ feature # "pending"
    /\ IdxHeadingAbove = {}
    /\ IdxOnPage # {}
    /\ \E i \in IdxBefore : all_text_elements[i].is_heading
    /\ \E i \in IdxOnPage : feature = all_text_elements[i].text

---------------------------------------------------------------------------
(* extract_pdf_content over the words of a PDF: paragraph detection,
   is_meaningful_text, heading detection, and the feature of a table.
   A paragraph's characters are kept in the field chars; the field text is
   the label that stands for them wherever a text is handed on. *)

MaxLines == 2

HEADER_FOOTER_MARGIN == 50

UpperChars ==
    <<"A", "B", "C", "D", "E", "F", "G", "H", "I", "J", "K", "L", "M", "N", "O", "P", "Q", "R", "S", "T", "U", "V", "W", "X", "Y", "Z">>
LowerChars ==
    <<"a", "b", "c", "d", "e", "f", "g", "h", "i", "j", "k", "l", "m", "n", "o", "p", "q", "r", "s", "t", "u", "v", "w", "x", "y", "z">>

IndexIn(seq, c) ==
    IF \E i \in DOMAIN seq : seq[i] = c
    THEN CHOOSE i \in DOMAIN seq : seq[i] = c
    ELSE 0

\* str.lower()
StrLower(s) ==
    [i \in DOMAIN s |->
        IF IndexIn(UpperChars, s[i]) > 0 THEN LowerChars[IndexIn(UpperChars, s[i])] ELSE s[i]]

\* str.isupper(): a cased character exists and no cased character is lowercase
StrIsUpper(s) ==
    /\ \E i \in DOMAIN s : IndexIn(UpperChars, s[i]) > 0
    /\ \A i \in DOMAIN s : IndexIn(LowerChars, s[i]) = 0

\* str.isdigit()
StrIsDigit(s) == Len(s) > 0 /\ \A i \in DOMAIN s : IsDigit(s[i])

\* str.strip()
RECURSIVE StrStrip(_)
StrStrip(s) ==
    IF s = << >> THEN s
    ELSE IF Head(s) = " " THEN StrStrip(Tail(s))
    ELSE IF s[Len(s)] = " " THEN StrStrip(SubSeq(s, 1, Len(s) - 1))
    ELSE s

\* len(text.split())
SplitCount(s) ==
    Cardinality({i \in DOMAIN s : s[i] # " " /\ (i = 1 \/ s[i - 1] = " ")})

NonMeaningfulPatterns ==
    { <<"t", "a", "b", "l", "e", " ", "o", "f", " ", "c", "o", "n", "t", "e", "n", "t", "s">>,
      <<"p", "a", "g", "e">>,
      <<"h", "e", "a", "d", "e", "r">>,
      <<"f", "o", "o", "t", "e", "r">> }

IsMeaningfulText(text) ==
    LET t == StrStrip(text) IN
        IF Len(t) < 10 THEN FALSE
        ELSE IF StrIsDigit(t) THEN FALSE
        ELSE IF SplitCount(t) < 3 THEN FALSE
        ELSE IF StrLower(t) \in NonMeaningfulPatterns THEN FALSE
        ELSE TRUE

\* the lines a page of the input can carry: words, font and size
LineCatalogue ==
    <<
      [words |-> <<<<"V", "O", "L", "T", "A", "G", "E">>, <<"S", "E", "T", "T", "I", "N", "G", "S">>>>,
       fontname |-> "Helvetica", size |-> 9],
      [words |-> <<<<"V", "o", "l", "t", "a", "g", "e">>, <<"S", "e", "t", "t", "i", "n", "g", "s">>>>,
       fontname |-> "Helvetica-Bold", size |-> 9],
      [words |-> <<<<"S", "E", "T">>, <<"T", "H", "E">>, <<"V", "O", "L", "T", "A", "G", "E">>, <<"L", "E", "V", "E", "L">>>>,
       fontname |-> "Helvetica", size |-> 9],
      [words |-> <<<<"s", "e", "e">>, <<"t", "h", "e">>, <<"t", "a", "b", "l", "e">>, <<"b", "e", "l", "o", "w">>>>,
       fontname |-> "Helvetica", size |-> 9],
      [words |-> <<<<"s", "e", "e">>, <<"t", "h", "e">>, <<"t", "a", "b", "l", "e">>, <<"b", "e", "l", "o", "w">>>>,
       fontname |-> "Helvetica", size |-> 12],
      [words |-> <<<<"4", "2">>>>,
       fontname |-> "Helvetica", size |-> 9],
      [words |-> <<<<"T", "a", "b", "l", "e">>, <<"o", "f">>, <<"C", "o", "n", "t", "e", "n", "t", "s">>>>,
       fontname |-> "Helvetica", size |-> 9]
    >>

BoldFonts == {"Helvetica-Bold"}

\* where a line can stand on a page: top of its words (their bottom is 10 lower)
LineTops == {30, 60, 73, 100, 160, 200}
LineHeight == 10
PageHeight == 400
\* the one table of the input, on its last page
TableBBox == [x0 |-> 50, top |-> 150, x1 |-> 500, bottom |-> 190]

\* page.extract_words(extra_attrs=["fontname", "size"]) for one line
WordsOfLine(line) ==
    [i \in 1..Len(LineCatalogue[line.entry].words) |->
        [text |-> LineCatalogue[line.entry].words[i],
         x0 |-> 72, x1 |-> 300,
         top |-> line.top, bottom |-> line.top + LineHeight,
         fontname |-> LineCatalogue[line.entry].fontname,
         size |-> LineCatalogue[line.entry].size]]

RECURSIVE WordsOfLines(_)
WordsOfLines(lines) ==
    IF lines = << >> THEN << >>
    ELSE WordsOfLine(Head(lines)) \o WordsOfLines(Tail(lines))

LineSeqs ==
    { ls \in UNION { [1..n -> [entry : DOMAIN LineCatalogue, top : LineTops]] : n \in 0..MaxLines } :
        \A i \in 1..(Len(ls) - 1) : ls[i].top < ls[i + 1].top }

FrontPage ==
    [height |-> PageHeight, table_bboxes |-> {},
     text_items |-> WordsOfLine([entry |-> 4, top |-> 60])]

TablePage(lines) ==
    [height |-> PageHeight, table_bboxes |-> {TableBBox},
     text_items |-> WordsOfLines(lines)]

Pdfs ==
    { <<TablePage(ls)>> : ls \in LineSeqs } \cup { <<FrontPage, TablePage(ls)>> : ls \in LineSeqs }

\* labels of the paragraphs of a page, in reading order
ParagraphLabels ==
    << <<"p1.1", "p1.2", "p1.3", "p1.4", "p1.5">>,
       <<"p2.1", "p2.2", "p2.3", "p2.4", "p2.5">> >>

\* the words the first pass skips: header, footer, inside a table
Skipped(item, page) ==
    \/ item.top < HEADER_FOOTER_MARGIN
    \/ item.bottom > page.height - HEADER_FOOTER_MARGIN
    \/ \E b \in page.table_bboxes :
           item.x0 >= b.x0 /\ item.top >= b.top /\ item.x1 <= b.x1 /\ item.bottom <= b.bottom

IsHeading(current_paragraph, current_words) ==
    \/ \E i \in DOMAIN current_words : current_words[i].size > 10
    \/ \E i \in DOMAIN current_words : current_words[i].fontname \in BoldFonts
    \/ StrIsUpper(current_paragraph)

\* the paragraph the loop has in hand, closed: appended to the paragraphs seen
CloseParagraph(acc, page_num) ==
    IF acc.current_paragraph = << >> THEN acc.out
    ELSE Append(acc.out,
            [text |-> ParagraphLabels[page_num][Len(acc.out) + 1],
             chars |-> acc.current_paragraph,
             page |-> page_num,
             position |-> acc.prev_bottom,
             is_heading |-> IsHeading(acc.current_paragraph, acc.current_words),
             meaningful |-> IsMeaningfulText(acc.current_paragraph)])

\* for item in text_items: skip, break the paragraph or extend it
RECURSIVE ScanWords(_, _, _, _)
ScanWords(items, page, page_num, acc) ==
    IF items = << >> THEN acc
    ELSE LET item == Head(items) IN
        IF Skipped(item, page) THEN ScanWords(Tail(items), page, page_num, acc)
        ELSE IF acc.current_paragraph = << >> \/ item.top - acc.prev_bottom > 5
        THEN ScanWords(Tail(items), page, page_num,
                 [current_paragraph |-> item.text, current_words |-> <<item>>,
                  prev_bottom |-> item.bottom, out |-> CloseParagraph(acc, page_num)])
        ELSE ScanWords(Tail(items), page, page_num,
                 [current_paragraph |-> acc.current_paragraph \o <<" ">> \o item.text,
                  current_words |-> Append(acc.current_words, item),
                  prev_bottom |-> item.bottom, out |-> acc.out])

\* the paragraphs the loop over the words of a page forms
Paragraphs(page, page_num) ==
    CloseParagraph(
        ScanWords(page.text_items, page, page_num,
            [current_paragraph |-> << >>, current_words |-> << >>,
             prev_bottom |-> 0, out |-> << >>]),
        page_num)

\* the paragraphs the first pass appends to all_text_elements
PageTextElements(page, page_num) ==
    SelectSeq(Paragraphs(page, page_num), LAMBDA p : p.meaningful)

ExtractInit ==
    /\ collection = {}
    /\ vector_indices = {}
    /\ clock = 0
    /\ response = [op |-> "none"]
    /\ writers = NoWriters
    /\ reader = NoReader
    /\ all_text_elements = << >>
    /\ table = [page |-> 0, top |-> 0]
    /\ feature = "pending"
    /\ pdf \in Pdfs
    /\ pages_done = 0
    /\ NoBuild
    /\ NoRetry
    /\ NoRequest
    /\ NoLaterWork

\* first pass over one page
ExtractPageText ==
    /\ pages_done < Len(pdf)
    /\ pages_done' = pages_done + 1
    /\ all_text_elements' =
           all_text_elements \o PageTextElements(pdf[pages_done + 1], pages_done + 1)
    /\ UNCHANGED <<pdf, table, feature>>
    /\ ExtractFrame

\* second pass: the table of the last page gets its feature
AssignTableFeature ==
    /\ pages_done = Len(pdf)
    /\ feature = "pending"
    /\ table' = [page |-> Len(pdf), top |-> TableBBox.top]
    /\ feature' = FindBestFeatureForTable(all_text_elements, Len(pdf), TableBBox.top)
    /\ UNCHANGED <<pdf, pages_done, all_text_elements>>
    /\ ExtractFrame

ExtractNext == ExtractPageText \/ AssignTableFeature

SpecExtract == ExtractInit /\ [][ExtractNext]_vars

\* the heading paragraphs (bold, large or all uppercase) of the table's page
\* that end above the table
HeadingParagraphsAbove ==
    LET ps == Paragraphs(pdf[table.page], table.page) IN
        { ps[i] : i \in { j \in DOMAIN ps : ps[j].is_heading /\ ps[j].position < table.top } }

\* C11: when the table's page has a heading paragraph (bold or all
\* uppercase) above the table, the table's feature is the text of the
\* nearest such heading, whatever the heading's length
C11_HeadingAboveTableIsFeature ==
    (feature # "pending" /\ pdf # << >>) =>
        \A h \in HeadingParagraphsAbove :
            (\A g \in HeadingParagraphsAbove : g.position <= h.position) => feature = h.text
---------------------------------------------------------------------------
(* process_documents_parallel: batches of the corpus, a pool of
   MAX_PARALLEL_REQUESTS workers running process_batch_with_retry, and the
   merge of the batch indexes in completion order.
   A document is its position in the input and its token count; a FAISS
   index is the sequence of the documents added to it. *)

MaxDocs == 210
MaxBuildDocs == 5
MaxPoolDocs == 7
MaxFailures == 1

MAX_PARALLEL_REQUESTS == 6
TARGET_TOKENS_PER_BATCH == 8000
MaxBatchSize == 100
DefaultBatchSize == 50

\* token counts of the documents of a corpus; 0 is a document without text
TokenCounts == {0, 1, 79, 80, 81, 2667, 4000, 8000, 8001}

\* a corpus of n documents of the same token count
Corpus(n, tokens) == [i \in 1..n |-> [id |-> i, tokens |-> tokens]]

\* sum(doc_tokens[lo..hi]), by halves
RECURSIVE SumRange(_, _, _)
SumRange(doc_tokens, lo, hi) ==
    IF lo > hi THEN 0
    ELSE IF lo = hi THEN doc_tokens[lo]
    ELSE SumRange(doc_tokens, lo, (lo + hi) \div 2)
             + SumRange(doc_tokens, (lo + hi) \div 2 + 1, hi)

SumTokens(doc_tokens) == SumRange(doc_tokens, 1, Len(doc_tokens))

Max2(a, b) == IF a >= b THEN a ELSE b
Min2(a, b) == IF a <= b THEN a ELSE b

DynamicBatchSize_NoCap(docs) ==
    LET doc_tokens == [i \in DOMAIN docs |-> docs[i].tokens]
        total_tokens == SumTokens(doc_tokens)
    IN  IF docs = << >> \/ total_tokens = 0 THEN DefaultBatchSize
        ELSE Max2(1, (TARGET_TOKENS_PER_BATCH * Len(docs)) \div total_tokens)

\* dynamic_batch_size; int(TARGET / avg_tokens) is the floor of the exact
\* quotient for the corpora of the model, whose average is a whole number
DynamicBatchSize(docs) ==
    LET doc_tokens == [i \in DOMAIN docs |-> docs[i].tokens]
        total_tokens == SumTokens(doc_tokens)
    IN  IF docs = << >> \/ total_tokens = 0 THEN DefaultBatchSize
        ELSE Max2(1, Min2(MaxBatchSize,
                 (TARGET_TOKENS_PER_BATCH * Len(docs)) \div total_tokens))

\* range(0, len(documents), dynamic_batch_size), as 1-based start positions
BatchStarts(n, size) == { i \in 1..n : (i - 1) % size = 0 }

\* batches = [documents[i:i + dynamic_batch_size] for i in range(...)]
Batches(docs) ==
    LET size == DynamicBatchSize(docs)
        count == Cardinality(BatchStarts(Len(docs), size))
    IN  [b \in 1..count |->
            SubSeq(docs, (b - 1) * size + 1, Min2(Len(docs), b * size))]

BatchInit ==
    /\ collection = {}
    /\ vector_indices = {}
    /\ clock = 0
    /\ response = [op |-> "none"]
    /\ writers = NoWriters
    /\ reader = NoReader
    /\ NoFeatureLookup
    /\ NoExtraction
    /\ \E n \in 0..MaxDocs, tokens \in TokenCounts : documents = Corpus(n, tokens)
    /\ batches = << >>
    /\ futures = << >>
    /\ faiss_index = None
    /\ completed = 0
    /\ build_pc = "start"
    /\ NoRetry
    /\ NoRequest
    /\ NoLaterWork

\* the corpus is split and every batch is submitted to the executor
SubmitBatches ==
    /\ build_pc = "start"
    /\ batches' = Batches(documents)
    /\ futures' = [b \in 1..Len(Batches(documents)) |-> [state |-> "queued", failures |-> 0]]
    /\ build_pc' = "collecting"
    /\ UNCHANGED <<documents, faiss_index, completed>>
    /\ BuildFrame

BatchNext == SubmitBatches

SpecBatch == BatchInit /\ [][BatchNext]_vars

\* the sequences seqs[lo..hi] one after another, by halves
RECURSIVE FlattenRange(_, _, _)
FlattenRange(seqs, lo, hi) ==
    IF lo > hi THEN << >>
    ELSE IF lo = hi THEN seqs[lo]
    ELSE FlattenRange(seqs, lo, (lo + hi) \div 2)
             \o FlattenRange(seqs, (lo + hi) \div 2 + 1, hi)

Flatten(seqs) == FlattenRange(seqs, 1, Len(seqs))

UniformTokens == IF documents = << >> THEN 0 ELSE documents[1].tokens

\* C12: for a corpus whose documents all have T >= 1 tokens, every batch but
\* the last has exactly max(1, min(100, floor(G / T))) documents, the last
\* batch is non-empty and no larger, and the batches in order are the input
C12_UniformBatches ==
    (build_pc = "collecting" /\ UniformTokens >= 1) =>
        LET k == Max2(1, Min2(100, TARGET_TOKENS_PER_BATCH \div UniformTokens)) IN
            /\ \A b \in 1..(Len(batches) - 1) : Len(batches[b]) = k
            /\ batches # << >>
            /\ Len(batches[Len(batches)]) >= 1
            /\ Len(batches[Len(batches)]) <= k
            /\ Flatten(batches) = documents

\* a corpus of more than one batch whose last batch is short, with the batch
\* size at the cap of 100
C12_CappedBatchesShortTail ==
    /\ build_pc = "collecting"
    /\ UniformTokens >= 1
    /\ Len(batches) >= 3
    /\ Len(batches[1]) = 100
    /\ Len(batches[Len(batches)]) < 100
---------------------------------------------------------------------------
(* The pool of process_documents_parallel: a worker takes the oldest queued
   batch, the embedding call fails or succeeds, a failure is followed by the
   backoff sleep and another attempt, and the caller merges the finished
   batches in the order as_completed yields them. *)

\* token counts that make batches of one and of two documents
BuildTokenCounts == {4000, 8000}

BuildInit ==
    /\ collection = {}
    /\ vector_indices = {}
    /\ clock = 0
    /\ response = [op |-> "none"]
    /\ writers = NoWriters
    /\ reader = NoReader
    /\ NoFeatureLookup
    /\ NoExtraction
    /\ \E n \in 0..MaxBuildDocs, tokens \in BuildTokenCounts : documents = Corpus(n, tokens)
    /\ batches = << >>
    /\ futures = << >>
    /\ faiss_index = None
    /\ completed = 0
    /\ build_pc = "start"
    /\ NoRetry
    /\ NoRequest
    /\ NoLaterWork

\* the batches inside process_batch_with_retry: embedding call or backoff sleep
InProgress(fs) == { b \in DOMAIN fs : fs[b].state \in {"running", "sleeping"} }

Queued(fs) == { b \in DOMAIN fs : fs[b].state = "queued" }

CanStart_Unbounded(fs) == TRUE

\* ThreadPoolExecutor(max_workers=MAX_PARALLEL_REQUESTS): a worker is free
CanStart(fs) == Cardinality(InProgress(fs)) < MAX_PARALLEL_REQUESTS

\* embedding failures injected so far, over all batches
RECURSIVE TotalFailures(_)
TotalFailures(fs) ==
    IF fs = << >> THEN 0 ELSE Head(fs).failures + TotalFailures(Tail(fs))

\* a free worker takes the oldest queued call
StartBatch(b) ==
    /\ build_pc = "collecting"
    /\ b \in Queued(futures)
    /\ \A c \in Queued(futures) : b <= c
    /\ CanStart(futures)
    /\ futures' = [futures EXCEPT ![b].state = "running"]
    /\ UNCHANGED <<documents, batches, faiss_index, completed, build_pc>>
    /\ BuildFrame

\* FAISS.from_documents raises: the handler records the time and sleeps
EmbeddingFails(b) ==
    /\ build_pc = "collecting"
    /\ futures[b].state = "running"
    /\ TotalFailures(futures) < MaxFailures
    /\ futures' = [futures EXCEPT ![b].state = "sleeping", ![b].failures = @ + 1]
    /\ UNCHANGED <<documents, batches, faiss_index, completed, build_pc>>
    /\ BuildFrame

\* the backoff sleep is over: while True takes the next attempt
RetryBatch(b) ==
    /\ build_pc = "collecting"
    /\ futures[b].state = "sleeping"
    /\ futures' = [futures EXCEPT ![b].state = "running"]
    /\ UNCHANGED <<documents, batches, faiss_index, completed, build_pc>>
    /\ BuildFrame

\* an exception leaves process_batch_with_retry from inside its handler
\* (print or time.sleep raising): the future holds the exception
BatchRaises(b) ==
    /\ build_pc = "collecting"
    /\ futures[b].state = "sleeping"
    /\ futures' = [futures EXCEPT ![b].state = "raised"]
    /\ UNCHANGED <<documents, batches, faiss_index, completed, build_pc>>
    /\ BuildFrame

\* FAISS.from_documents returns the index of the batch
EmbeddingSucceeds(b) ==
    /\ build_pc = "collecting"
    /\ futures[b].state = "running"
    /\ futures' = [futures EXCEPT ![b].state = "done"]
    /\ UNCHANGED <<documents, batches, faiss_index, completed, build_pc>>
    /\ BuildFrame

\* FAISS.from_documents(batch, embeddings)
FromDocuments(batch) == [docs |-> [i \in DOMAIN batch |-> batch[i].id]]

MergeFrom_Overwrite(index, batch_index) == batch_index

\* faiss_index.merge_from(batch_index)
MergeFrom(index, batch_index) == [docs |-> index.docs \o batch_index.docs]

CollectedIndex_MergesFailed(index, future, batch) ==
    IF index = None THEN FromDocuments(batch)
    ELSE MergeFrom(index, FromDocuments(batch))

\* the body of the as_completed loop for one future: future.result() raises
\* and the batch is skipped, or the batch index becomes or joins faiss_index
CollectedIndex(index, future, batch) ==
    IF future.state = "raised" THEN index
    ELSE IF index = None THEN FromDocuments(batch)
    ELSE MergeFrom(index, FromDocuments(batch))

\* as_completed yields a finished future
CollectBatch(b) ==
    /\ build_pc = "collecting"
    /\ futures[b].state \in {"done", "raised"}
    /\ faiss_index' = CollectedIndex(faiss_index, futures[b], batches[b])
    /\ completed' = IF futures[b].state = "done" THEN completed + 1 ELSE completed
    /\ futures' = [futures EXCEPT ![b].state =
                      IF futures[b].state = "done" THEN "merged" ELSE "failed"]
    /\ UNCHANGED <<documents, batches, build_pc>>
    /\ BuildFrame

\* Variant: the loop over as_completed ends before the futures do.
AllYielded_Early(fs) == TRUE

\* for future in as_completed(futures) is over: every future was yielded
AllYielded(fs) == \A b \in DOMAIN fs : fs[b].state \in {"merged", "failed"}

\* every future was yielded: return faiss_index
ReturnIndex ==
    /\ build_pc = "collecting"
    /\ AllYielded(futures)
    /\ build_pc' = "returned"
    /\ UNCHANGED <<documents, batches, futures, faiss_index, completed>>
    /\ BuildFrame

BuildNext ==
    \/ SubmitBatches
    \/ \E b \in DOMAIN futures :
           \/ StartBatch(b)
           \/ EmbeddingFails(b)
           \/ RetryBatch(b)
           \/ BatchRaises(b)
           \/ EmbeddingSucceeds(b)
           \/ CollectBatch(b)
    \/ ReturnIndex

SpecBuild == BuildInit /\ [][BuildNext]_vars

PoolInit ==
    /\ collection = {}
    /\ vector_indices = {}
    /\ clock = 0
    /\ response = [op |-> "none"]
    /\ writers = NoWriters
    /\ reader = NoReader
    /\ NoFeatureLookup
    /\ NoExtraction
    /\ \E n \in 0..MaxPoolDocs, tokens \in BuildTokenCounts : documents = Corpus(n, tokens)
    /\ batches = << >>
    /\ futures = << >>
    /\ faiss_index = None
    /\ completed = 0
    /\ build_pc = "start"
    /\ NoRetry
    /\ NoRequest
    /\ NoLaterWork

\* the worker threads of the pool alone: what they do does not depend on
\* the caller collecting the finished futures
PoolNext ==
    \/ SubmitBatches
    \/ \E b \in DOMAIN futures :
           \/ StartBatch(b)
           \/ EmbeddingFails(b)
           \/ RetryBatch(b)
           \/ BatchRaises(b)
           \/ EmbeddingSucceeds(b)

SpecPool == PoolInit /\ [][PoolNext]_vars

\* how often document d stands in the returned index
Occurrences(d) ==
    IF faiss_index = None THEN 0
    ELSE Cardinality({ i \in DOMAIN faiss_index.docs : faiss_index.docs[i] = d })

BatchesIn(state) == { b \in DOMAIN futures : futures[b].state = state }

DocsOfBatches(bs) == UNION { { batches[b][i].id : i \in DOMAIN batches[b] } : b \in bs }

IndexedDocs == IF faiss_index = None THEN {} ELSE { faiss_index.docs[i] : i \in DOMAIN faiss_index.docs }

\* C13: whatever the order in which the batches complete, the returned index
\* holds every document of every successfully processed batch exactly once,
\* and nothing else: its content is the same for every completion order
C13_EverySuccessfulBatchOnce ==
    build_pc = "returned" =>
        /\ \A d \in DocsOfBatches(BatchesIn("merged")) : Occurrences(d) = 1
        /\ IndexedDocs = DocsOfBatches(BatchesIn("merged"))

\* a build of three or more batches merged in another order than submitted
C13_MergedOutOfOrder ==
    /\ build_pc = "returned"
    /\ Len(batches) >= 3
    /\ faiss_index # None
    /\ \E i \in 1..(Len(faiss_index.docs) - 1) : faiss_index.docs[i] > faiss_index.docs[i + 1]

\* C14: at no time are more than MAX_PARALLEL_REQUESTS (6) batches inside
\* process_batch_with_retry, however many batches the corpus produces
C14_AtMostSixInProgress ==
    Cardinality(InProgress(futures)) <= MAX_PARALLEL_REQUESTS

\* six batches in progress while another one waits in the queue
C14_PoolFullBatchWaiting ==
    /\ Cardinality(InProgress(futures)) = MAX_PARALLEL_REQUESTS
    /\ Queued(futures) # {}

\* C16: a batch whose future raised is left out of the merge, the build
\* returns an index of exactly the batches that succeeded, and it returns no
\* index only when no batch succeeded
C16_FailedBatchesExcluded ==
    build_pc = "returned" =>
        /\ \A d \in DocsOfBatches(BatchesIn("failed")) : Occurrences(d) = 0
        /\ faiss_index = None => BatchesIn("merged") = {}
        /\ BatchesIn("merged") # {} =>
               /\ faiss_index # None
               /\ Len(faiss_index.docs) = Cardinality(DocsOfBatches(BatchesIn("merged")))

\* a finished build with a failed batch and a merged one
C16_SomeFailedSomeMerged ==
    /\ build_pc = "returned"
    /\ BatchesIn("failed") # {}
    /\ BatchesIn("merged") # {}
    /\ faiss_index # None
---------------------------------------------------------------------------
(* process_batch_with_retry for one batch, with the clock: the attempt, its
   failure, the handler's time.sleep(RETRY_DELAY) and the next attempt.
   retry.now is time.time(); a sleep lasts at least as long as asked. *)

MaxRetryFailures == 2

RETRY_DELAY == 60

\* time.time() when the call starts: a wall clock, far above RETRY_DELAY
StartTimes == {1000}
\* how long FAISS.from_documents takes before it returns or raises
CallDurations == {0, 30}
\* how much longer than asked a time.sleep lasts
Oversleep == {0, 1}

RetryBatches == { Corpus(n, 8000) : n \in 1..2 }

RetryInit ==
    /\ collection = {}
    /\ vector_indices = {}
    /\ clock = 0
    /\ response = [op |-> "none"]
    /\ writers = NoWriters
    /\ reader = NoReader
    /\ NoFeatureLookup
    /\ NoExtraction
    /\ NoBuild
    /\ \E batch \in RetryBatches, t \in StartTimes :
           retry = [pc |-> "loop", batch |-> batch, now |-> t, last_error_time |-> 0,
                    failures |-> 0, result |-> None]
    /\ NoRequest
    /\ NoLaterWork

\* if elapsed < RETRY_DELAY: time.sleep(RETRY_DELAY - elapsed)
WaitBeforeCall(now, last_error_time) ==
    IF now - last_error_time < RETRY_DELAY
    THEN now + (RETRY_DELAY - (now - last_error_time))
    ELSE now

\* time.sleep(self.RETRY_DELAY) begun at t ends no earlier than
BackoffWake(t) == t + RETRY_DELAY

\* top of while True: the elapsed check, then the embedding call begins
BeginAttempt ==
    /\ retry.pc = "loop"
    /\ retry' = [retry EXCEPT !.pc = "calling",
                              !.now = WaitBeforeCall(retry.now, retry.last_error_time)]
    /\ RetryFrame

AfterFailure_GivesUp(failures) == IF failures >= 1 THEN "returned" ELSE "backoff"

\* where the call goes after its n-th failure: the handler, then while True
\* again, whatever n is
AfterFailure(failures) == "backoff"

\* FAISS.from_documents raises: last_error_time = time.time()
CallFails ==
    /\ retry.pc = "calling"
    /\ retry.failures < MaxRetryFailures
    /\ \E d \in CallDurations :
           retry' = [retry EXCEPT !.pc = AfterFailure(retry.failures + 1), !.now = @ + d,
                                  !.last_error_time = retry.now + d,
                                  !.failures = @ + 1]
    /\ RetryFrame

\* time.sleep(self.RETRY_DELAY) in the handler, then back to while True
BackoffSleep ==
    /\ retry.pc = "backoff"
    /\ \E o \in Oversleep :
           retry' = [retry EXCEPT !.pc = "loop", !.now = BackoffWake(retry.now) + o]
    /\ RetryFrame

\* return FAISS.from_documents(batch, embeddings)
CallSucceeds ==
    /\ retry.pc = "calling"
    /\ \E d \in CallDurations :
           retry' = [retry EXCEPT !.pc = "returned", !.now = @ + d,
                                  !.result = FromDocuments(retry.batch)]
    /\ RetryFrame

RetryNext == BeginAttempt \/ CallFails \/ BackoffSleep \/ CallSucceeds

SpecRetry == RetryInit /\ [][RetryNext]_vars

\* the thread that runs the call is scheduled: a step of the loop that can
\* be taken is taken; nothing is assumed about the embedding service
SpecRetryFair == SpecRetry /\ WF_vars(BeginAttempt) /\ WF_vars(BackoffSleep)

\* C15: the call returns only with the index of its batch, an attempt after
\* a failure begins no earlier than RETRY_DELAY seconds after that failure,
\* and after every failed attempt another attempt follows
C15_RetriesUntilSuccess ==
    /\ [](retry.pc = "returned" => retry.result = FromDocuments(retry.batch))
    /\ []((retry.pc = "calling" /\ retry.failures > 0) =>
              retry.now - retry.last_error_time >= RETRY_DELAY)
    /\ (retry.pc = "backoff" ~> retry.pc = "calling")

\* the call returned after as many failures as the environment may inject
C15_ReturnedAfterFailures ==
    /\ retry.pc = "returned"
    /\ retry.failures = MaxRetryFailures
---------------------------------------------------------------------------
(* Uploads during which update_vector_index can fail *)

FaultyUpload ==
    \E file \in Files, doc_type \in BaseTypes, title \in Titles, fault \in Faults :
        UploadFileToMongodbUnder(file, doc_type, title, fault)

FaultyNext == FaultyUpload

SpecFaulty == Init /\ [][FaultyNext]_vars

\* the page records and the whole chunk set the last upload stored
PageRecordsStored ==
    \E r \in collection :
        /\ r.title = response.title
        /\ r.doc_type = response.final_doctype
        /\ r.upload_date = clock - 1

IndexPersisted ==
    LET chunks == { c \in vector_indices :
                        /\ c.name = IndexName(response.final_doctype, response.title)
                        /\ c.doc_type = response.final_doctype
                        /\ c.title = response.title
                        /\ c.last_updated = clock - 1 }
    IN  /\ chunks # {}
        /\ \A c \in chunks : c.total_chunks = Cardinality(chunks)

\* C17: upload_file_to_mongodb returns True only if the page records were
\* stored and a vector index for the uploaded (title, doc_type) was built and
\* persisted in the chunk store; a failed indexing is reported as a failure
C17_TrueOnlyIfIndexed ==
    (response.op = "upload" /\ response.ok) => (PageRecordsStored /\ IndexPersisted)
---------------------------------------------------------------------------
(* The /upload endpoint and upload_multiple_files: the files of one request,
   each going through upload_file_to_mongodb step by step (doc_type and
   extraction, record insert, index build).  A file path is the position of
   the file in the request. *)

MaxFiles == 2

\* the extensions the endpoint accepts
AppSupportedExts == {".pdf", ".docx", ".doc", ".xlsx", ".xls", ".csv"}

\* the store before the request: empty, or holding one earlier upload
EarlierFile == [ext |-> ".pdf", pages |-> 1]
EarlierDocs ==
    MongoDocs(ExtractContent(EarlierFile), <<"a", " ", "b">>, <<"t">>, EarlierFile, 0)

Requests ==
    [via : {"endpoint", "direct"},
     files : UNION { [1..n -> Files] : n \in 1..MaxFiles },
     title : Titles,
     doc_type : {<<"t">>}]

MultiInit ==
    /\ \/ /\ collection = {}
          /\ vector_indices = {}
          /\ clock = 0
       \/ /\ collection = EarlierDocs
          /\ vector_indices = UpdateVectorIndex(EarlierDocs, {}, <<"t">>, <<"a", " ", "b">>, 0)
          /\ clock = 1
    /\ response = [op |-> "none"]
    /\ writers = NoWriters
    /\ reader = NoReader
    /\ NoFeatureLookup
    /\ NoExtraction
    /\ NoBuild
    /\ NoRetry
    /\ NoLaterWork
    /\ request \in Requests
    /\ progress = [i \in DOMAIN request.files |->
                      [phase |-> "waiting", final_doctype |-> << >>, stamp |-> 0]]
    /\ results = << >>
    /\ http = 0
    /\ multi_pc = "received"

\* upload_document: a file of the request has an extension outside the list
EndpointRejects ==
    /\ multi_pc = "received"
    /\ request.via = "endpoint"
    /\ \E i \in DOMAIN request.files : request.files[i].ext \notin AppSupportedExts
    /\ http' = 400
    /\ multi_pc' = "done"
    /\ UNCHANGED <<request, progress, results, collection, vector_indices, clock>>
    /\ MultiFrame

\* upload_document: every file is saved and upload_multiple_files is called
EndpointAccepts ==
    /\ multi_pc = "received"
    /\ request.via = "endpoint"
    /\ \A i \in DOMAIN request.files : request.files[i].ext \in AppSupportedExts
    /\ multi_pc' = "uploading"
    /\ UNCHANGED <<request, progress, results, http, collection, vector_indices, clock>>
    /\ MultiFrame

\* upload_multiple_files called by another caller than the endpoint
DirectCall ==
    /\ multi_pc = "received"
    /\ request.via = "direct"
    /\ multi_pc' = "uploading"
    /\ UNCHANGED <<request, progress, results, http, collection, vector_indices, clock>>
    /\ MultiFrame

CanStartFile_Parallel(prog, i) == TRUE

\* for file_path, title in zip(file_paths, titles): iteration i begins when
\* the iterations before it have ended
CanStartFile(prog, i) == \A j \in 1..(i - 1) : prog[j].phase = "done"

\* results[file_path] = value
SetResult(res, path, value) ==
    [p \in DOMAIN res \cup {path} |-> IF p = path THEN value ELSE res[p]]

\* upload_file_to_mongodb begins: final doc_type, dispatch on the extension,
\* extraction; it returns False for an unsupported or empty file
BeginFile(i) ==
    /\ multi_pc = "uploading"
    /\ progress[i].phase = "waiting"
    /\ CanStartFile(progress, i)
    /\ LET file == request.files[i]
           final_doctype == GetNextAvailableDoctype(collection, request.title, request.doc_type)
       IN  IF file.ext \notin SupportedExts \/ ExtractContent(file) = << >>
           THEN /\ progress' = [progress EXCEPT ![i].phase = "done"]
                /\ results' = SetResult(results, i, FALSE)
           ELSE /\ progress' = [progress EXCEPT ![i].phase = "extracted",
                                                ![i].final_doctype = final_doctype]
                /\ UNCHANGED results
    /\ UNCHANGED <<request, http, multi_pc, collection, vector_indices, clock>>
    /\ MultiFrame

\* delete_many of the (title, final_doctype) records, insert_many of the pages
StoreFile(i) ==
    /\ multi_pc = "uploading"
    /\ progress[i].phase = "extracted"
    /\ LET file == request.files[i]
           kept == DeleteByTitleAndType(collection, request.title, progress[i].final_doctype)
       IN  collection' = kept \cup MongoDocs(ExtractContent(file), request.title,
                                             progress[i].final_doctype, file, clock)
    /\ clock' = clock + 1
    /\ progress' = [progress EXCEPT ![i].phase = "stored", ![i].stamp = clock]
    /\ UNCHANGED <<request, results, http, multi_pc, vector_indices>>
    /\ MultiFrame

\* update_vector_index, then return True
IndexFile(i) ==
    /\ multi_pc = "uploading"
    /\ progress[i].phase = "stored"
    /\ vector_indices' = UpdateVectorIndex(collection, vector_indices,
                                           progress[i].final_doctype, request.title,
                                           progress[i].stamp)
    /\ progress' = [progress EXCEPT ![i].phase = "done"]
    /\ results' = SetResult(results, i, TRUE)
    /\ UNCHANGED <<request, http, multi_pc, collection, clock>>
    /\ MultiFrame

\* the loop is over: return results; the endpoint answers 422 if a file
\* failed and 200 otherwise
ReturnResults ==
    /\ multi_pc = "uploading"
    /\ \A i \in DOMAIN progress : progress[i].phase = "done"
    /\ multi_pc' = "done"
    /\ http' = IF request.via = "direct" THEN 0
               ELSE IF \E p \in DOMAIN results : ~results[p] THEN 422 ELSE 200
    /\ UNCHANGED <<request, progress, results, collection, vector_indices, clock>>
    /\ MultiFrame

MultiNext ==
    \/ EndpointRejects
    \/ EndpointAccepts
    \/ DirectCall
    \/ \E i \in DOMAIN progress : BeginFile(i) \/ StoreFile(i) \/ IndexFile(i)
    \/ ReturnResults

SpecMulti == MultiInit /\ [][MultiNext]_vars

Unsupported(file) == file.ext \notin {".pdf", ".docx", ".doc", ".xlsx", ".xls", ".csv"}

\* C18: an upload of a file with an unsupported extension is reported as a
\* failure (False from upload_file_to_mongodb, HTTP 400 from the endpoint)
\* and changes neither the document records nor the index chunk store
C18_UnsupportedRejectedUntouched ==
    [][ /\ \A i \in DOMAIN progress :
              (Unsupported(request.files[i]) /\ progress[i].phase # progress'[i].phase) =>
                  /\ progress'[i].phase = "done"
                  /\ i \in DOMAIN results'
                  /\ results'[i] = FALSE
                  /\ UNCHANGED <<collection, vector_indices>>
        /\ (request.via = "endpoint" /\ multi_pc = "received"
                /\ \E i \in DOMAIN request.files : Unsupported(request.files[i])) =>
              /\ http' = 400
              /\ multi_pc' = "done"
              /\ UNCHANGED <<collection, vector_indices>> ]_vars

\* an unsupported file answered with False in a call that went on to store
\* another file
C18_UnsupportedAmongStored ==
    /\ multi_pc = "done"
    /\ \E i \in DOMAIN results : Unsupported(request.files[i]) /\ ~results[i]
    /\ \E j \in DOMAIN results : results[j]

---------------------------------------------------------------------------
(* The corpora of the two retrievers of one ensemble *)

\* the content elements a handed byte string holds (one symbolic byte each)
VectorCorpus(handed) == UNION { { bytes[i] : i \in DOMAIN bytes } : bytes \in handed }

\* C21: at every query the lexical retriever and the vector retriever it is
\* ensembled with are built over the same set of content elements, text and
\* table elements alike
C21_SameCorpus ==
    (/\ response.op \in {"load_hybrid_retriever", "get_relevant_docs"}
     /\ response.status = "ok"
     /\ response.text_docs # {}) =>
        response.text_docs = VectorCorpus(response.handed)
---------------------------------------------------------------------------
(* Feedback records: /store-feedback (PromptManager.process_and_store_feedback),
   the feedback handling of /process_query/ and of the TestSuiteGenerator
   entry points, and TestCaseGenerator._get_relevant_feedback.

   A product title, a feature and a query are whole strings here.  The text
   of a feedback, of a test case and of an LLM analysis is a label
   <<kind, n>>, n being the number of the submission, so that the record a
   returned entry was made from can be told.  A Python dict is a record;
   its keys are its DOMAIN. *)

MaxFeedback == 4     \* feedback records stored, per behaviour
MaxItems == 2        \* feedback items carried by one generation request
MaxStoredFeedback == 2  \* feedback records stored before a generation request

Products == {"p1", "p2"}
Features == {"voltage", "voltage limit", "current", "current limit"}
Queries == {"voltage", "current"}

\* threshold: float = 0.2, as a fraction
ThresholdNum == 1
ThresholdDen == 5
\* relevant_feedback[:3]
TopK == 3

\* sum of the sizes of SequenceMatcher(None, a, b).get_matching_blocks()
\* for the strings above (all lower case already)
MatchingChars(a, b) ==
    CASE a = "voltage" /\ b = "voltage" -> 7
      [] a = "voltage" /\ b = "voltage limit" -> 7
      [] a = "voltage" /\ b = "current" -> 1
      [] a = "voltage" /\ b = "current limit" -> 2
      [] a = "current" /\ b = "voltage" -> 1
      [] a = "current" /\ b = "voltage limit" -> 2
      [] a = "current" /\ b = "current" -> 7
      [] a = "current" /\ b = "current limit" -> 7

StrLen(s) ==
    CASE s \in {"voltage", "current"} -> 7
      [] s \in {"voltage limit", "current limit"} -> 13

\* similar(a, b): SequenceMatcher.ratio() = 2.0 * M / T, kept as the pair
\* (2M, T)
Similar(a, b) == [num |-> 2 * MatchingChars(a, b), den |-> StrLen(a) + StrLen(b)]

ScoreLess(s1, s2) == s1.num * s2.den < s2.num * s1.den
ScoreEq(s1, s2) == s1.num * s2.den = s2.num * s1.den
\* score >= threshold
AtLeastThreshold(score) == score.num * ThresholdDen >= ThresholdNum * score.den

\* feedback_collection.find({"product_title": product_title}): a record
\* without the field does not match
FindByProduct(coll, product_title) ==
    SelectSeq(coll, LAMBDA fb : "product_title" \in DOMAIN fb /\ fb.product_title = product_title)

\* key=lambda x: (-x["similarity_score"], -x["timestamp"].timestamp())
RankLess(x, y) ==
    \/ ScoreLess(y.similarity_score, x.similarity_score)
    \/ /\ ScoreEq(x.similarity_score, y.similarity_score)
       /\ x.timestamp > y.timestamp

\* list.sort is stable: e goes before the first entry it ranks strictly before
InsertByRank(sorted, e) ==
    LET before == { i \in 1..Len(sorted) : RankLess(e, sorted[i]) }
        k == IF before = {} THEN Len(sorted) + 1 ELSE SetMin(before)
    IN  SubSeq(sorted, 1, k - 1) \o << e >> \o SubSeq(sorted, k, Len(sorted))

RECURSIVE SortFrom(_, _)
SortFrom(list, sorted) ==
    IF list = << >> THEN sorted
    ELSE SortFrom(Tail(list), InsertByRank(sorted, Head(list)))

\* Variant: the list is returned in find() order.
SortBySimilarity_Unsorted(relevant_feedback) == relevant_feedback

\* relevant_feedback.sort(key=...)
SortBySimilarity(relevant_feedback) == SortFrom(relevant_feedback, << >>)

\* the loop over all_feedback: the entries appended to relevant_feedback
RECURSIVE RelevantEntries(_, _)
RelevantEntries(all_feedback, query) ==
    IF all_feedback = << >> THEN << >>
    ELSE LET fb == Head(all_feedback)
             score == Similar(query, fb.feature)
         IN  (IF AtLeastThreshold(score)
              THEN << [feedback |-> fb.structured_feedback,
                       similarity_score |-> score,
                       timestamp |-> fb.timestamp] >>
              ELSE << >>)
             \o RelevantEntries(Tail(all_feedback), query)

\* TestCaseGenerator._get_relevant_feedback(query, product_title): a record
\* read without its "feature" or, when it qualifies, its
\* "structured_feedback" raises KeyError, which the except branch turns
\* into []
GetRelevantFeedback(coll, query, product_title) ==
    LET all_feedback == FindByProduct(coll, product_title)
        raises == \E i \in 1..Len(all_feedback) :
                      \/ "feature" \notin DOMAIN all_feedback[i]
                      \/ /\ AtLeastThreshold(Similar(query, all_feedback[i].feature))
                         /\ ~({"structured_feedback", "timestamp"} \subseteq DOMAIN all_feedback[i])
    IN  IF all_feedback = << >> \/ raises THEN << >>
        ELSE LET sorted == SortBySimilarity(RelevantEntries(all_feedback, query))
             IN  SubSeq(sorted, 1, Min2(TopK, Len(sorted)))

\* PromptManager.process_and_store_feedback: the LLM analysis, then
\* insert_one(feedback_doc); False when a step raises.  analysis is the
\* parsed "feedback_analysis" of the LLM answer, or None when the call raised.
ProcessAndStoreFeedback(coll, now, product_title, feature_description, raw_feedback, previous_test_case, analysis) ==
    IF analysis = None
    THEN [success |-> FALSE, coll |-> coll]
    ELSE [success |-> TRUE,
          coll |-> Append(coll, [product_title |-> product_title,
                                 feature |-> feature_description,
                                 raw_feedback |-> raw_feedback,
                                 previous_test_case |-> previous_test_case,
                                 structured_feedback |-> analysis,
                                 timestamp |-> now])]

\* def store_feedback(self, feature_description: str, feedback: str)
StoreFeedbackParams == {"feature_description", "feedback"}
\* store_feedback(product_title=..., feature=..., feedback=...,
\* previous_test_case=...), the call made by app.py and test_suite_generation.py
StoreFeedbackKeywords == {"product_title", "feature", "feedback", "previous_test_case"}

\* Python binds a keyword call only when every keyword names a parameter
\* and every parameter without default gets a value
CallBinds(params, keywords) == keywords \subseteq params /\ params \subseteq keywords

\* TestCaseGenerator.store_feedback called with the given keyword arguments
\* (args: keyword -> value): TypeError when the call does not bind
StoreFeedback(coll, now, args) ==
    IF ~CallBinds(StoreFeedbackParams, DOMAIN args)
    THEN [raised |-> "TypeError", coll |-> coll]
    ELSE [raised |-> "none",
          coll |-> Append(coll, [feature |-> args.feature_description,
                                 feedback |-> args.feedback,
                                 timestamp |-> now])]

\* for feedback in feedback_items: store_feedback(product_title=..., ...)
RECURSIVE StoreItems(_, _, _, _, _, _)
StoreItems(coll, now, product_title, feature_description, items, previous_test_case) ==
    IF items = << >> THEN [raised |-> "none", coll |-> coll]
    ELSE LET args == [k \in StoreFeedbackKeywords |->
                         CASE k = "product_title" -> product_title
                           [] k = "feature" -> feature_description
                           [] k = "feedback" -> Head(items)
                           [] k = "previous_test_case" -> previous_test_case]
             one == StoreFeedback(coll, now, args)
         IN  IF one.raised # "none" THEN one
             ELSE StoreItems(one.coll, now + 1, product_title, feature_description, Tail(items),
                             previous_test_case)

\* _update_data_stores, the feedback collection part: update_one(
\* {product_title, feature}, {"$set": {previous_test_case, timestamp,
\* context_used}}, upsert=True) when the generation carried feedback items
UpdateDataStores(coll, now, product_title, feature_description, items) ==
    LET matching == { i \in 1..Len(coll) :
                        /\ {"product_title", "feature"} \subseteq DOMAIN coll[i]
                        /\ coll[i].product_title = product_title
                        /\ coll[i].feature = feature_description }
        set == [previous_test_case |-> <<"test suite", now>>, timestamp |-> now,
                context_used |-> <<"context", now>>]
        Updated(fb) == [k \in DOMAIN fb \cup DOMAIN set |->
                           IF k \in DOMAIN set THEN set[k] ELSE fb[k]]
    IN  IF items = << >> THEN coll
        ELSE IF matching = {}
        THEN Append(coll, Updated([product_title |-> product_title, feature |-> feature_description]))
        ELSE [coll EXCEPT ![SetMin(matching)] = Updated(coll[SetMin(matching)])]

\* the keys _generate_test_suite reads from every stored feedback entry
FeedbackContextKeys == {"feature", "raw_feedback", "previous_test_case"}

\* TestSuiteGenerator._generate_test_suite, feedback side: documents
\* retrieved or not, stored feedback read and formatted, request items
\* appended, the generation loop (which catches every exception), then
\* _update_data_stores
GenerateTestSuite(coll, now, product_title, feature_description, items, docs_found) ==
    IF ~docs_found
    THEN [status |-> "no_documents", coll |-> coll, feedback_instructions |-> << >>]
    ELSE LET stored_feedback == GetRelevantFeedback(coll, feature_description, product_title)
         IN  IF \E i \in 1..Len(stored_feedback) :
                    ~(FeedbackContextKeys \subseteq DOMAIN stored_feedback[i])
             THEN [status |-> "KeyError", coll |-> coll, feedback_instructions |-> << >>]
             ELSE [status |-> "ok",
                   coll |-> UpdateDataStores(coll, now, product_title, feature_description, items),
                   feedback_instructions |->
                       [i \in 1..Len(stored_feedback) |->
                           [feature |-> stored_feedback[i].feature,
                            raw_feedback |-> stored_feedback[i].raw_feedback,
                            previous_test_case |-> stored_feedback[i].previous_test_case]]
                       \o items]

\* TestSuiteGenerator.generate_for_existing_product / _similar_product /
\* _new_product: store the feedback items, then _generate_test_suite
GenerateForProduct(coll, now, product_title, feature_description, items, docs_found) ==
    LET stored == StoreItems(coll, now, product_title, feature_description, items,
                             <<"Test suite generation">>)
    IN  IF stored.raised # "none"
        THEN [status |-> stored.raised, coll |-> stored.coll, feedback_instructions |-> << >>]
        ELSE GenerateTestSuite(stored.coll, now + Len(items), product_title, feature_description,
                               items, docs_found)

\* process_query, operation_type "test_suite_generation": feedback items
\* are stored when a previous test case came with them, then the generator
\* is called; an exception becomes HTTP 500
ProcessQueryResult(coll, now, product_title, query, items, has_previous, docs_found) ==
    LET stored == IF items # << >> /\ has_previous
                  THEN StoreItems(coll, now, product_title, query, items, <<"previous">>)
                  ELSE [raised |-> "none", coll |-> coll]
    IN  IF stored.raised # "none"
        THEN [status |-> stored.raised, coll |-> stored.coll, feedback_instructions |-> << >>]
        ELSE GenerateForProduct(stored.coll, now + Len(items), product_title, query,
                                items, docs_found)

ItemLists == { [i \in 1..n |-> <<"item", i>>] : n \in 0..MaxItems }

FeedbackInit ==
    /\ collection = {}
    /\ vector_indices = {}
    /\ clock = 0
    /\ response = [op |-> "none"]
    /\ writers = NoWriters
    /\ reader = NoReader
    /\ NoFeatureLookup
    /\ NoExtraction
    /\ NoBuild
    /\ NoRetry
    /\ NoRequest
    /\ NoLaterWork

\* POST /store-feedback, while fewer than limit records are stored
StoreFeedbackUpTo(limit) ==
    /\ Len(feedback_collection) < limit
    /\ \E product_title \in Products, feature_description \in Features, llm_ok \in BOOLEAN :
           LET n == Len(feedback_collection) + 1
               done == ProcessAndStoreFeedback(feedback_collection, fb_clock, product_title,
                                               feature_description, <<"feedback", n>>, <<"test case", n>>,
                                               IF llm_ok THEN <<"analysis", n>> ELSE None)
           IN  /\ feedback_collection' = done.coll
               /\ fb_result' = [op |-> "store_feedback", product_title |-> product_title,
                                feature |-> feature_description,
                                http |-> IF done.success THEN 200 ELSE 500]
               /\ fb_clock' = IF done.success THEN fb_clock + 1 ELSE fb_clock
    /\ FeedbackFrame

StoreFeedbackEndpoint == StoreFeedbackUpTo(MaxFeedback)

StoreFeedbackBeforeQuery == StoreFeedbackUpTo(MaxStoredFeedback)

\* POST /process_query/ for a test suite
ProcessQuery ==
    /\ \E product_title \in Products, query \in Queries, items \in ItemLists,
          has_previous \in BOOLEAN, docs_found \in BOOLEAN :
           LET done == ProcessQueryResult(feedback_collection, fb_clock, product_title,
                                          query, items, has_previous, docs_found)
           IN  /\ feedback_collection' = done.coll
               /\ fb_clock' = IF done.coll = feedback_collection THEN fb_clock
                              ELSE fb_clock + 2 * Len(items) + 1
               /\ fb_result' = [op |-> "process_query", product_title |-> product_title,
                                query |-> query, items |-> items,
                                docs_found |-> docs_found, status |-> done.status,
                                feedback_instructions |-> done.feedback_instructions,
                                http |-> IF done.status \in {"ok", "no_documents"}
                                         THEN 200 ELSE 500]
    /\ FeedbackFrame

\* a call of _get_relevant_feedback(query, product_title)
ReadRelevantFeedback ==
    /\ \E product_title \in Products, query \in Queries :
           fb_result' = [op |-> "get_relevant_feedback", product_title |-> product_title,
                         query |-> query,
                         returned |-> GetRelevantFeedback(feedback_collection, query,
                                                          product_title)]
    /\ UNCHANGED <<feedback_collection, fb_clock>>
    /\ FeedbackFrame

FeedbackNext == StoreFeedbackEndpoint \/ ReadRelevantFeedback

SpecFeedback == FeedbackInit /\ [][FeedbackNext]_vars

GenerateNext == StoreFeedbackBeforeQuery \/ ProcessQuery

SpecGenerate == FeedbackInit /\ [][GenerateNext]_vars
\* the stored records of the product whose feature is similar enough to the query
QualifyingFeedback(query, product_title) ==
    { i \in 1..Len(feedback_collection) :
        /\ feedback_collection[i].product_title = product_title
        /\ AtLeastThreshold(Similar(query, feedback_collection[i].feature)) }

\* the stored record a returned entry was made from
SourceOf(entry) ==
    CHOOSE i \in 1..Len(feedback_collection) :
        feedback_collection[i].structured_feedback = entry.feedback

\* record i ranks above record j for the query
Outranks(query, i, j) ==
    LET si == Similar(query, feedback_collection[i].feature)
        sj == Similar(query, feedback_collection[j].feature)
    IN  \/ ScoreLess(sj, si)
        \/ /\ ScoreEq(si, sj)
           /\ feedback_collection[i].timestamp > feedback_collection[j].timestamp

\* C22: _get_relevant_feedback(query, product) returns at most 3 entries,
\* each made from a record of the product whose feature similarity to the
\* query is at least the threshold 0.2, ordered by similarity descending and,
\* for equal similarity, newest first; no qualifying record left out ranks
\* above a returned one; records with the same feature are ranked
\* separately (as many entries as qualifying records, up to 3)
C22_RankedTopThree ==
    fb_result.op = "get_relevant_feedback" =>
        LET returned == fb_result.returned
            query == fb_result.query
            qualifying == QualifyingFeedback(query, fb_result.product_title)
            sources == { SourceOf(returned[k]) : k \in 1..Len(returned) }
        IN  /\ Len(returned) <= 3
            /\ Len(returned) = Min2(3, Cardinality(qualifying))
            /\ \A k \in 1..Len(returned) :
                   \E i \in qualifying :
                       /\ feedback_collection[i].structured_feedback = returned[k].feedback
                       /\ feedback_collection[i].timestamp = returned[k].timestamp
                       /\ ScoreEq(returned[k].similarity_score,
                                  Similar(query, feedback_collection[i].feature))
            /\ Cardinality(sources) = Len(returned)
            /\ \A k, l \in 1..Len(returned) :
                   k < l => ~Outranks(query, SourceOf(returned[l]), SourceOf(returned[k]))
            /\ \A i \in qualifying \ sources : \A j \in sources : ~Outranks(query, i, j)

\* three entries returned, two of them from records with the same feature,
\* while a fourth qualifying record with a lower similarity is left out
C22_SameFeatureBothReturned ==
    /\ fb_result.op = "get_relevant_feedback"
    /\ Len(fb_result.returned) = 3
    /\ \E k, l \in 1..3 :
           /\ k < l
           /\ feedback_collection[SourceOf(fb_result.returned[k])].feature
                  = feedback_collection[SourceOf(fb_result.returned[l])].feature
    /\ \E i \in QualifyingFeedback(fb_result.query, fb_result.product_title) :
           /\ \A k \in 1..3 : SourceOf(fb_result.returned[k]) # i
           /\ ScoreLess(Similar(fb_result.query, feedback_collection[i].feature),
                        fb_result.returned[3].similarity_score)
---------------------------------------------------------------------------
(* TestSuiteGenerator._generate_with_retry: one call, the LLM answering or
   raising at every attempt.  The content of an answer is the label
   <<"content", n>>, n being the number of the LLM call that gave it. *)

\* max_retries=5
DefaultMaxRetries == 5

ErrorKinds == {"RateLimitError", "APIError", "ServiceUnavailableError", "Exception"}

\* wait_time of the except branch taken for the error, attempt counted from 0
WaitTime(error, attempt) ==
    CASE error = "RateLimitError" -> 60
      [] error \in {"APIError", "ServiceUnavailableError"} -> Min2(10 * (attempt + 1), 60)
      [] OTHER -> 5

LlmInit ==
    /\ collection = {}
    /\ vector_indices = {}
    /\ clock = 0
    /\ response = [op |-> "none"]
    /\ writers = NoWriters
    /\ reader = NoReader
    /\ NoFeatureLookup
    /\ NoExtraction
    /\ NoBuild
    /\ NoRetry
    /\ NoRequest
    /\ NoFeedback
    /\ NoSuite
    /\ NoUploads
    /\ llm = [pc |-> "loop", max_retries |-> DefaultMaxRetries, attempt |-> 0,
              calls |-> 0, errors |-> << >>, slept |-> 0, result |-> None]

\* Variant: the loop has no bound.
MoreAttempts_Unbounded(attempt, max_retries) == TRUE

\* for attempt in range(max_retries)
MoreAttempts(attempt, max_retries) == attempt < max_retries

\* the loop takes its next attempt: response = self.llm(messages) is called
LlmCall ==
    /\ llm.pc = "loop"
    /\ MoreAttempts(llm.attempt, llm.max_retries)
    /\ llm' = [llm EXCEPT !.pc = "calling", !.calls = @ + 1]
    /\ LlmFrame

\* the call answers: return response.content.strip()
LlmAnswers ==
    /\ llm.pc = "calling"
    /\ llm' = [llm EXCEPT !.pc = "returned", !.result = <<"content", llm.calls>>]
    /\ LlmFrame

\* the call raises: last_error = e, time.sleep(wait_time), next attempt
LlmRaises ==
    /\ llm.pc = "calling"
    /\ \E error \in ErrorKinds :
           llm' = [llm EXCEPT !.pc = "loop",
                              !.errors = Append(@, error),
                              !.slept = @ + WaitTime(error, llm.attempt),
                              !.attempt = @ + 1]
    /\ LlmFrame

\* the loop is over: raise Exception("Failed after ... attempts ...")
LlmGivesUp ==
    /\ llm.pc = "loop"
    /\ ~MoreAttempts(llm.attempt, llm.max_retries)
    /\ llm' = [llm EXCEPT !.pc = "raised"]
    /\ LlmFrame

LlmNext == LlmCall \/ LlmAnswers \/ LlmRaises \/ LlmGivesUp

SpecLlm == LlmInit /\ [][LlmNext]_vars

\* C23: _generate_with_retry calls the LLM at most max_retries (5) times;
\* it returns the content of the first successful call, every call before
\* it having failed, and after max_retries consecutive failures it makes no
\* further call and raises to its caller
C23_BoundedLlmRetries ==
    /\ llm.calls <= 5
    /\ llm.pc = "returned" =>
           /\ llm.result = <<"content", llm.calls>>
           /\ Len(llm.errors) = llm.calls - 1
    /\ llm.pc = "raised" =>
           /\ llm.calls = 5
           /\ Len(llm.errors) = 5
           /\ llm.result = None
    /\ Len(llm.errors) = 5 => llm.pc \in {"loop", "raised"}

\* five failed calls, then the exception
C23_RaisedAfterFiveFailures ==
    /\ llm.pc = "raised"
    /\ Len(llm.errors) = 5
\* C24: every feedback submission appends records and never modifies or
\* removes a stored one: a generation request carrying k feedback items
\* adds k records, a /store-feedback call that succeeds adds one
C24_FeedbackAppended ==
    [][ /\ Len(feedback_collection') >= Len(feedback_collection)
        /\ \A i \in 1..Len(feedback_collection) :
               feedback_collection'[i] = feedback_collection[i]
        /\ (fb_result' # fb_result /\ fb_result'.op = "process_query") =>
               Len(feedback_collection') = Len(feedback_collection) + Len(fb_result'.items)
        /\ (fb_result' # fb_result /\ fb_result'.op = "store_feedback"
                /\ fb_result'.http = 200) =>
               Len(feedback_collection') = Len(feedback_collection) + 1 ]_vars
\* C27: after a feedback record was stored through /store-feedback for a
\* product and a feature, a later test-suite generation for the same product
\* and a similar feature (documents found, no feedback items of its own)
\* completes without error, and the feedback instructions given to the LLM
\* hold that record's feature, feedback and previous test case
C27_StoredFeedbackReachesPrompt ==
    (/\ fb_result.op = "process_query"
     /\ fb_result.docs_found
     /\ fb_result.items = << >>) =>
        LET qualifying == QualifyingFeedback(fb_result.query, fb_result.product_title)
        IN  (qualifying # {} /\ Cardinality(qualifying) <= TopK) =>
                /\ fb_result.status = "ok"
                /\ \A i \in qualifying :
                       \E k \in 1..Len(fb_result.feedback_instructions) :
                           fb_result.feedback_instructions[k]
                               = [feature |-> feedback_collection[i].feature,
                                  raw_feedback |-> feedback_collection[i].raw_feedback,
                                  previous_test_case |->
                                      feedback_collection[i].previous_test_case]
---------------------------------------------------------------------------
(* process_documents_parallel with an embedding call that may fail any
   number of times.  The failure count of a batch stops at MaxFailures; the
   number of failures itself is not limited. *)

MaxLiveDocs == 3

LiveInit ==
    /\ collection = {}
    /\ vector_indices = {}
    /\ clock = 0
    /\ response = [op |-> "none"]
    /\ writers = NoWriters
    /\ reader = NoReader
    /\ NoFeatureLookup
    /\ NoExtraction
    /\ \E n \in 0..MaxLiveDocs, tokens \in BuildTokenCounts : documents = Corpus(n, tokens)
    /\ batches = << >>
    /\ futures = << >>
    /\ faiss_index = None
    /\ completed = 0
    /\ build_pc = "start"
    /\ NoRetry
    /\ NoRequest
    /\ NoLaterWork

\* FAISS.from_documents raises, once more: the handler records the time and
\* sleeps
EmbeddingFailsAgain(b) ==
    /\ build_pc = "collecting"
    /\ futures[b].state = "running"
    /\ futures' = [futures EXCEPT ![b].state = "sleeping",
                                  ![b].failures = Min2(@ + 1, MaxFailures)]
    /\ UNCHANGED <<documents, batches, faiss_index, completed, build_pc>>
    /\ BuildFrame

LiveNext ==
    \/ SubmitBatches
    \/ \E b \in DOMAIN futures :
           \/ StartBatch(b)
           \/ EmbeddingFailsAgain(b)
           \/ RetryBatch(b)
           \/ EmbeddingSucceeds(b)
           \/ CollectBatch(b)
    \/ ReturnIndex

SpecLive == LiveInit /\ [][LiveNext]_vars

\* The caller and the pool threads keep running, a sleep ends and
\* as_completed yields what has finished (weak fairness); the embedding call
\* of a batch that keeps being retried eventually succeeds (strong fairness
\* of EmbeddingSucceeds: the premise of the termination claim).
SpecLiveFair ==
    /\ SpecLive
    /\ WF_vars(SubmitBatches)
    /\ WF_vars(ReturnIndex)
    /\ \A b \in 1..MaxLiveDocs :
           /\ WF_vars(StartBatch(b))
           /\ WF_vars(b \in DOMAIN futures /\ RetryBatch(b))
           /\ WF_vars(b \in DOMAIN futures /\ CollectBatch(b))
           /\ SF_vars(b \in DOMAIN futures /\ EmbeddingSucceeds(b))

---------------------------------------------------------------------------
(* TestSuiteGenerator._generate_test_suite from the point where the
   documents and the feedback context are there: the generation loop and the
   placeholders.  An answer of the LLM is the list of raw test cases
   _split_generated_test_cases cuts it into.  A raw test case is described by
   what _validate_test_case and the uniqueness check look at: whether it is
   blank, whether it holds the table header, the rows after the header (the
   number of cells between the first and the last "|", and whether the
   fourth and the fifth cell are filled), and its text after strip().lower(). *)

MaxTestCases == 2       \* no_testcase of the request
MaxCasesPerAnswer == 2  \* raw test cases in one LLM answer

\* max_total_attempts = no_testcase * 5
AttemptsPerTestCase == 5

Row(cells, action, expected) == [cells |-> cells, action |-> action, expected |-> expected]

RawCases ==
    { [blank |-> FALSE, header |-> TRUE, rows |-> << Row(5, TRUE, TRUE) >>, lower |-> "a"],
      [blank |-> FALSE, header |-> TRUE, rows |-> << Row(5, FALSE, TRUE), Row(5, TRUE, TRUE) >>,
       lower |-> "b"],
      [blank |-> FALSE, header |-> TRUE, rows |-> << Row(6, TRUE, TRUE) >>, lower |-> "c"],
      [blank |-> TRUE, header |-> FALSE, rows |-> << >>, lower |-> ""],
      [blank |-> FALSE, header |-> FALSE, rows |-> << Row(5, TRUE, TRUE) >>, lower |-> "d"],
      [blank |-> FALSE, header |-> TRUE, rows |-> << Row(5, TRUE, FALSE) >>, lower |-> "e"],
      [blank |-> FALSE, header |-> TRUE, rows |-> << Row(2, TRUE, TRUE) >>, lower |-> "f"],
      [blank |-> FALSE, header |-> TRUE, rows |-> << Row(4, TRUE, FALSE) >>, lower |-> "g"] }

\* what one call of _generate_with_retry gives: an exception, or an answer
\* cut into raw test cases
Answers == UNION { [1..n -> RawCases] : n \in 1..MaxCasesPerAnswer }

\* the loop over lines of _validate_test_case: True at the first complete
\* row, IndexError at a row of exactly four cells whose fourth is filled
\* (parts[4] does not exist), False when the rows run out
RECURSIVE ScanRows(_)
ScanRows(rows) ==
    IF rows = << >> THEN "False"
    ELSE LET row == Head(rows)
         IN  IF row.cells + 1 >= 4 /\ row.cells >= 4 /\ row.action
             THEN IF row.cells = 4 THEN "IndexError"
                  ELSE IF row.expected THEN "True" ELSE ScanRows(Tail(rows))
             ELSE ScanRows(Tail(rows))

\* TestSuiteGenerator._validate_test_case
ValidateTestCase(test_case) ==
    IF test_case.blank THEN "False"
    ELSE IF ~test_case.header THEN "False"
    ELSE ScanRows(test_case.rows)

\* _format_test_case(test_case, case_number, total_cases): the section
\* "## Test Case {case_number}/{total_cases}" followed by the text
FormatTestCase(text, case_number, total_cases) ==
    [case_number |-> case_number, total_cases |-> total_cases, text |-> text]

Placeholder == "This test case could not be generated automatically."

\* for raw_case in raw_test_cases: ..., from the given loop state on; an
\* exception ends the loop with what was accepted before it
RECURSIVE AcceptCases(_, _)
AcceptCases(raw_test_cases, s) ==
    IF raw_test_cases = << >> \/ s.generated_count >= s.no_testcase THEN s
    ELSE LET raw_case == Head(raw_test_cases)
             valid == ValidateTestCase(raw_case)
         IN  IF valid = "IndexError" THEN s
             ELSE IF valid = "False" \/ raw_case.lower \in s.previous_test_cases
             THEN AcceptCases(Tail(raw_test_cases), s)
             ELSE AcceptCases(Tail(raw_test_cases),
                      [s EXCEPT !.previous_test_cases = @ \cup {raw_case.lower},
                                !.test_cases = Append(@, FormatTestCase(raw_case.lower,
                                                   s.generated_count + 1, s.no_testcase)),
                                !.generated_count = @ + 1])

\* Variant: the loop is not bounded by the number of attempts.
LoopContinues_NoAttemptBound(s) == s.generated_count < s.no_testcase

\* while generated_count < no_testcase and total_attempts < max_total_attempts
LoopContinues(s) ==
    /\ s.generated_count < s.no_testcase
    /\ s.total_attempts < s.no_testcase * AttemptsPerTestCase

\* for i in range(generated_count, no_testcase): test_cases.append(placeholder)
WithPlaceholders(s) ==
    s.test_cases \o [k \in 1..(s.no_testcase - s.generated_count) |->
                        FormatTestCase(Placeholder, s.generated_count + k, s.no_testcase)]

SuiteInit ==
    /\ collection = {}
    /\ vector_indices = {}
    /\ clock = 0
    /\ response = [op |-> "none"]
    /\ writers = NoWriters
    /\ reader = NoReader
    /\ NoFeatureLookup
    /\ NoExtraction
    /\ NoBuild
    /\ NoRetry
    /\ NoRequest
    /\ NoFeedback
    /\ NoLlmCall
    /\ NoUploads
    /\ \E no_testcase \in 1..MaxTestCases :
           suite = [pc |-> "loop", no_testcase |-> no_testcase, test_cases |-> << >>,
                    generated_count |-> 0, total_attempts |-> 0,
                    previous_test_cases |-> {}, llm_failures |-> 0]

\* one iteration of the loop in which _generate_with_retry raises
AttemptFails ==
    /\ suite.pc = "loop"
    /\ LoopContinues(suite)
    /\ suite' = [suite EXCEPT !.total_attempts = @ + 1, !.llm_failures = @ + 1]
    /\ SuiteFrame

\* one iteration of the loop in which the LLM answers
AttemptAnswers ==
    /\ suite.pc = "loop"
    /\ LoopContinues(suite)
    /\ \E raw_test_cases \in Answers :
           suite' = AcceptCases(raw_test_cases, [suite EXCEPT !.total_attempts = @ + 1])
    /\ SuiteFrame

\* the loop is over: placeholders for the missing test cases, return
ReturnSuite ==
    /\ suite.pc = "loop"
    /\ ~LoopContinues(suite)
    /\ suite' = [suite EXCEPT !.pc = "returned", !.test_cases = WithPlaceholders(suite)]
    /\ SuiteFrame

SuiteNext == AttemptFails \/ AttemptAnswers \/ ReturnSuite

SpecSuite == SuiteInit /\ [][SuiteNext]_vars

---------------------------------------------------------------------------
(* Uploads whose database calls interleave.  upload_file_to_mongodb takes no
   lock and runs in no transaction: the find of _get_next_available_doctype,
   delete_many, insert_many and update_vector_index are separate calls on the
   shared store, so the calls of uploads running in different workers or
   clients of the same database can interleave.  All uploads of a behaviour
   are made under one title and one base doc_type. *)

MaxConcurrentUploads == 2

Uploaders == 1..MaxConcurrentUploads

\* the files the concurrent uploads send
UploadedFiles == { f \in Files : (f.ext = ".pdf" /\ f.pages \in 1..2) \/ f.ext = ".txt" }

UploadsInit ==
    /\ \/ /\ collection = {}
          /\ vector_indices = {}
          /\ clock = 0
       \/ /\ collection = EarlierDocs
          /\ vector_indices = UpdateVectorIndex(EarlierDocs, {}, <<"t">>, <<"a", " ", "b">>, 0)
          /\ clock = 1
    /\ response = [op |-> "none"]
    /\ \E title \in Titles, doc_type \in BaseTypes :
           uploads \in [Uploaders -> [pc : {"called"}, file : UploadedFiles,
                                      title : {title}, doc_type : {doc_type},
                                      final_doctype : {<< >>}, stamp : {0}]]
    /\ writers = NoWriters
    /\ reader = NoReader
    /\ NoFeatureLookup
    /\ NoExtraction
    /\ NoBuild
    /\ NoRetry
    /\ NoRequest
    /\ NoFeedback
    /\ NoLlmCall
    /\ NoSuite

\* final_doctype = self._get_next_available_doctype(title, doc_type)
NextAvailableDoctypeStep(u) ==
    /\ uploads[u].pc = "called"
    /\ uploads' = [uploads EXCEPT
                       ![u].pc = "named",
                       ![u].final_doctype =
                           GetNextAvailableDoctype(collection, uploads[u].title,
                                                   uploads[u].doc_type)]
    /\ UNCHANGED <<collection, vector_indices, clock>>
    /\ UploadFrame

\* the extension dispatch and the parser call; return False when the
\* extension is not supported or nothing was extracted
ExtractStep(u) ==
    /\ uploads[u].pc = "named"
    /\ uploads' = [uploads EXCEPT
                       ![u].pc = IF \/ uploads[u].file.ext \notin SupportedExts
                                    \/ ExtractContent(uploads[u].file) = << >>
                                 THEN "returned False" ELSE "extracted"]
    /\ UNCHANGED <<collection, vector_indices, clock>>
    /\ UploadFrame

\* self.collection.delete_many({"title": title, "doc_type": final_doctype})
DeleteManyStep(u) ==
    /\ uploads[u].pc = "extracted"
    /\ collection' = DeleteByTitleAndType(collection, uploads[u].title,
                                          uploads[u].final_doctype)
    /\ uploads' = [uploads EXCEPT ![u].pc = "deleted"]
    /\ UNCHANGED <<vector_indices, clock>>
    /\ UploadFrame

\* the records this upload inserts
OwnRecords(up) ==
    MongoDocs(ExtractContent(up.file), up.title, up.final_doctype, up.file, up.stamp)

\* self.collection.insert_many(mongo_docs)
InsertManyStep(u) ==
    /\ uploads[u].pc = "deleted"
    /\ uploads' = [uploads EXCEPT ![u].pc = "inserted", ![u].stamp = clock]
    /\ collection' = collection \cup OwnRecords(uploads'[u])
    /\ clock' = clock + 1
    /\ UNCHANGED vector_indices
    /\ UploadFrame

\* self.update_vector_index(final_doctype, title, embeddings); return True
UpdateVectorIndexStep(u) ==
    /\ uploads[u].pc = "inserted"
    /\ vector_indices' = UpdateVectorIndex(collection, vector_indices,
                                           uploads[u].final_doctype, uploads[u].title,
                                           uploads[u].stamp)
    /\ uploads' = [uploads EXCEPT ![u].pc = "returned True"]
    /\ UNCHANGED <<collection, clock>>
    /\ UploadFrame

UploadsNext ==
    \E u \in Uploaders :
        \/ NextAvailableDoctypeStep(u)
        \/ ExtractStep(u)
        \/ DeleteManyStep(u)
        \/ InsertManyStep(u)
        \/ UpdateVectorIndexStep(u)

SpecUploads == UploadsInit /\ [][UploadsNext]_vars

\* the uploads that have got past extraction, and those that have inserted
Storing == { u \in Uploaders :
                uploads[u].pc \in {"extracted", "deleted", "inserted", "returned True"} }

Inserted == { u \in Uploaders : uploads[u].pc \in {"inserted", "returned True"} }

\* C28: whatever the interleaving of uploads under one title and base
\* doc_type, at most one record exists per (title, doc_type, page_no), no two
\* uploads that store are assigned the same doc_type, and the page records an
\* upload has inserted are all still in the collection
C28_OneRecordPerIdentity ==
    /\ \A r1, r2 \in collection :
           (r1.title = r2.title /\ r1.doc_type = r2.doc_type /\ r1.page_no = r2.page_no)
               => r1 = r2
    /\ \A u, v \in Storing :
           u # v => uploads[u].final_doctype # uploads[v].final_doctype
    /\ \A u \in Inserted : OwnRecords(uploads[u]) \subseteq collection
---------------------------------------------------------------------------
(* The index name as the key of the chunk store *)

\* the chunks a step removes from the chunk store
ChunksRemoved == vector_indices \ vector_indices'

\* C29: the index name determines (doc_type, title), so a step that persists
\* the index of one pair removes chunks of that pair only: every chunk a step
\* removes from the chunk store belongs to the pair just uploaded
C29_NameIdentifiesPair ==
    [][\A c \in ChunksRemoved :
           /\ c.doc_type = response'.final_doctype
           /\ c.title = response'.title]_vars
---------------------------------------------------------------------------
(* update_vector_index returning None *)

\* C30: when update_vector_index returns None, whatever the reason (no
\* documents, no index built, an exception at any step), the chunk set stored
\* under the index name of the call is the same after the call as before it
C30_NoneLeavesChunksAlone ==
    [][(/\ response'.op = "upload"
        /\ response'.ok
        /\ response'.index = "None") =>
           LET index_name == IndexName(response'.final_doctype, response'.title)
           IN  ChunksNamed(vector_indices', index_name)
                   = ChunksNamed(vector_indices, index_name)]_vars

===========================================================================
